---- MODULE Spec2Model ----
(***************************************************************************)
(* A model of the Coda -> Framer mapping core (src/mapping.ts):            *)
(* mapCodaTypeToFramerType, buildFieldsAndItems, transformCodaValue and    *)
(* their helpers.                                                          *)
(*                                                                         *)
(* JavaScript strings are sequences of one-character strings, so that      *)
(* toLowerCase, includes, trim and the regular-expression replacements are *)
(* computed character by character.  A JavaScript value is a record with   *)
(* a kind tag k: "undef", "null", "str", "num", "bool", "obj", "arr".      *)
(***************************************************************************)
EXTENDS Integers, Sequences, FiniteSets, TLC

(***************************************************************************)
(* Strings                                                                 *)
(***************************************************************************)
UpperChars == <<"A","B","C","D","E","F","G","H","I","J","K","L","M",
                "N","O","P","Q","R","S","T","U","V","W","X","Y","Z">>

LowerChars == <<"a","b","c","d","e","f","g","h","i","j","k","l","m",
                "n","o","p","q","r","s","t","u","v","w","x","y","z">>

\* String.prototype.toLowerCase, one character
LowerChar(c) ==
  IF \E i \in DOMAIN UpperChars : UpperChars[i] = c
  THEN LowerChars[CHOOSE i \in DOMAIN UpperChars : UpperChars[i] = c]
  ELSE c

\* String.prototype.toLowerCase
ToLower(s) == [i \in DOMAIN s |-> LowerChar(s[i])]

\* s.startsWith(p) at 1-based position i
MatchAt(s, i, p) ==
  /\ i >= 1
  /\ i + Len(p) - 1 <= Len(s)
  /\ SubSeq(s, i, i + Len(p) - 1) = p

\* String.prototype.startsWith
StartsWith(s, p) == MatchAt(s, 1, p)

\* String.prototype.endsWith
EndsWith(s, p) == MatchAt(s, Len(s) - Len(p) + 1, p)

\* String.prototype.includes
Includes(s, sub) == \E i \in 1..(Len(s) + 1) : MatchAt(s, i, sub)

\* the characters String.prototype.trim removes (those the inputs use)
IsSpace(c) == c \in {" ", "\t", "\n"}

RECURSIVE TrimLeft(_)
TrimLeft(s) ==
  IF s # <<>> /\ IsSpace(Head(s)) THEN TrimLeft(Tail(s)) ELSE s

RECURSIVE TrimRight(_)
TrimRight(s) ==
  IF s # <<>> /\ IsSpace(s[Len(s)]) THEN TrimRight(SubSeq(s, 1, Len(s) - 1)) ELSE s

\* String.prototype.trim
Trim(s) == TrimRight(TrimLeft(s))

\* the backquote character (U+0060)
Backquote == "<backquote>"

Fence == <<Backquote, Backquote, Backquote>>

\* s.replace(/^FENCE|FENCE$/g, ""): a leading fence, then a trailing fence of what is left
StripFences(s) ==
  LET a == IF StartsWith(s, Fence) THEN SubSeq(s, 4, Len(s)) ELSE s
  IN  IF EndsWith(a, Fence) THEN SubSeq(a, 1, Len(a) - 3) ELSE a

\* position of the first occurrence of p in s at or after i, 0 if none
FirstAt(s, i, p) ==
  IF \E j \in i..(Len(s) + 1) : MatchAt(s, j, p)
  THEN CHOOSE j \in i..(Len(s) + 1) :
         /\ MatchAt(s, j, p)
         /\ \A m \in i..(j - 1) : ~MatchAt(s, m, p)
  ELSE 0

MailTo == <<"m","a","i","l","t","o",":">>

\* the replacer of the link pattern in stripMarkdown
LinkReplacement(linkText, linkUrl) ==
  IF StartsWith(linkUrl, MailTo)
  THEN LET emailFromUrl == SubSeq(linkUrl, 8, Len(linkUrl))
       IN  IF ToLower(linkText) = ToLower(emailFromUrl) THEN emailFromUrl ELSE linkText
  ELSE linkText

\* text.replace(/\[([^\]]+)]\(([^)]+)\)/g, replacer), scanning from position i
RECURSIVE ReplaceLinks(_, _)
ReplaceLinks(s, i) ==
  IF i > Len(s) THEN <<>>
  ELSE LET j == IF s[i] = "[" THEN FirstAt(s, i + 1, <<"]">>) ELSE 0
           m == IF j >= i + 2 /\ MatchAt(s, j + 1, <<"(">>)
                THEN FirstAt(s, j + 2, <<")">>) ELSE 0
       IN  IF m >= j + 3 /\ j >= i + 2
           THEN LinkReplacement(SubSeq(s, i + 1, j - 1), SubSeq(s, j + 2, m - 1))
                  \o ReplaceLinks(s, m + 1)
           ELSE <<s[i]>> \o ReplaceLinks(s, i + 1)

\* text.replace(/FENCE([\s\S]*?)FENCE/g, (_m, g) => g.trim()), scanning from position i
RECURSIVE ReplaceFenced(_, _)
ReplaceFenced(s, i) ==
  IF i > Len(s) THEN <<>>
  ELSE LET j == IF MatchAt(s, i, Fence) THEN FirstAt(s, i + 3, Fence) ELSE 0
       IN  IF j > 0
           THEN Trim(SubSeq(s, i + 3, j - 1)) \o ReplaceFenced(s, j + 3)
           ELSE <<s[i]>> \o ReplaceFenced(s, i + 1)

\* text.replace(/Q([^Q]*)Q/g, (_m, g) => g.trim()) with Q the backquote, from position i
RECURSIVE ReplaceInline(_, _)
ReplaceInline(s, i) ==
  IF i > Len(s) THEN <<>>
  ELSE LET j == IF s[i] = Backquote THEN FirstAt(s, i + 1, <<Backquote>>) ELSE 0
       IN  IF j > 0
           THEN Trim(SubSeq(s, i + 1, j - 1)) \o ReplaceInline(s, j + 1)
           ELSE <<s[i]>> \o ReplaceInline(s, i + 1)

stripMarkdown(text) ==
  Trim(ReplaceInline(ReplaceFenced(ReplaceLinks(text, 1), 1), 1))

\* decimal digits of a natural number, as String(n) renders them
RECURSIVE NatToStr(_)
NatToStr(n) ==
  LET Digits == <<"0","1","2","3","4","5","6","7","8","9">>
  IN  IF n < 10 THEN <<Digits[n + 1]>>
      ELSE NatToStr(n \div 10) \o <<Digits[(n % 10) + 1]>>

\* String(n) for an integer
IntToStr(n) == IF n < 0 THEN <<"-">> \o NatToStr(0 - n) ELSE NatToStr(n)

\* the digits of n below the power of ten d, with their leading zeros
RECURSIVE FractionDigits(_, _)
FractionDigits(n, d) ==
  IF d = 1 THEN <<>>
  ELSE FractionDigits(n \div 10, d \div 10) \o NatToStr(n % 10)

\* String(n / d) for a decimal in lowest terms
DecToStr(n, d) ==
  IF d = 1 THEN IntToStr(n)
  ELSE LET a == IF n < 0 THEN 0 - n ELSE n
       IN  (IF n < 0 THEN <<"-">> ELSE <<>>)
             \o NatToStr(a \div d) \o <<".">> \o FractionDigits(a % d, d)

(***************************************************************************)
(* JavaScript values                                                       *)
(***************************************************************************)
Undef == [k |-> "undef"]

Null == [k |-> "null"]

Str(s) == [k |-> "str", s |-> s]

\* a number n / d, d a power of ten; a decimal is kept in lowest terms (Dec)
Num(n) == [k |-> "num", n |-> n, d |-> 1]

RECURSIVE Dec(_, _)
Dec(n, d) ==
  IF d > 1 /\ n % 10 = 0 THEN Dec(n \div 10, d \div 10)
  ELSE [k |-> "num", n |-> n, d |-> d]

Bool(b) == [k |-> "bool", b |-> b]

\* an object; f maps its own property names to values
Obj(f) == [k |-> "obj", f |-> f]

Arr(a) == [k |-> "arr", a |-> a]

EmptyObj == Obj([key \in {} |-> Undef])

\* typeof v === "string"
IsString(v) == v.k = "str"

\* typeof v === "number"
IsNumber(v) == v.k = "num"

\* typeof v === "object" && v !== null  (arrays included)
IsObject(v) == v.k \in {"obj", "arr"}

\* Array.isArray(v)
IsArray(v) == v.k = "arr"

\* key in v, for an object or array v (an array has none of the keys used here)
HasKey(v, key) == v.k = "obj" /\ key \in DOMAIN v.f

\* v[key], undefined when the property is absent
Get(v, key) == IF HasKey(v, key) THEN v.f[key] ELSE Undef

\* JavaScript truthiness
Truthy(v) ==
  CASE v.k = "undef" -> FALSE
    [] v.k = "null"  -> FALSE
    [] v.k = "str"   -> v.s # <<>>
    [] v.k = "num"   -> v.n # 0
    [] v.k = "bool"  -> v.b
    [] OTHER         -> TRUE

\* const name = value; body -- the value is computed once and named in the body
With(value, Body(_)) == Body(value)

\* elements joined by sep
RECURSIVE Join(_, _)
Join(parts, sep) ==
  IF parts = <<>> THEN <<>>
  ELSE IF Len(parts) = 1 THEN parts[1]
  ELSE parts[1] \o sep \o Join(Tail(parts), sep)

\* String(v)
RECURSIVE ToStr(_)
ToStr(v) ==
  CASE v.k = "undef" -> <<"u","n","d","e","f","i","n","e","d">>
    [] v.k = "null"  -> <<"n","u","l","l">>
    [] v.k = "str"   -> v.s
    [] v.k = "num"   -> DecToStr(v.n, v.d)
    [] v.k = "bool"  -> IF v.b THEN <<"t","r","u","e">> ELSE <<"f","a","l","s","e">>
    [] v.k = "obj"   -> <<"[","o","b","j","e","c","t"," ","O","b","j","e","c","t","]">>
    [] v.k = "arr"   ->
         Join([i \in DOMAIN v.a |->
                 IF v.a[i].k \in {"undef", "null"} THEN <<>> ELSE ToStr(v.a[i])],
              <<",">>)

\* obj[key] of a plain mapping (row.values), undefined when the key is absent
Lookup(values, key) == IF key \in DOMAIN values THEN values[key] ELSE Undef

\* a mapping without the keys in gone: the rest pattern { id, _id, values, ...rest }
Without(f, gone) == [key \in (DOMAIN f) \ gone |-> f[key]]

extractMeaningfulText(item) ==
  IF IsString(item) THEN item.s
  ELSE IF item.k = "obj"
  THEN IF /\ HasKey(item, <<"u","r","l">>)
          /\ IsString(Get(item, <<"u","r","l">>))
          /\ Get(item, <<"@","t","y","p","e">>) = Str(<<"W","e","b","P","a","g","e">>)
       THEN Get(item, <<"u","r","l">>).s
       ELSE LET Pick(key) == IsString(Get(item, key)) /\ Get(item, key).s # <<>>
            IN  IF Pick(<<"r","a","w","V","a","l","u","e">>) THEN Get(item, <<"r","a","w","V","a","l","u","e">>).s
                ELSE IF Pick(<<"v","a","l","u","e">>) THEN Get(item, <<"v","a","l","u","e">>).s
                ELSE IF Pick(<<"d","i","s","p","l","a","y","V","a","l","u","e">>) THEN Get(item, <<"d","i","s","p","l","a","y","V","a","l","u","e">>).s
                ELSE IF Pick(<<"n","a","m","e">>) THEN Get(item, <<"n","a","m","e">>).s
                ELSE IF Pick(<<"c","o","n","t","e","n","t">>) THEN Get(item, <<"c","o","n","t","e","n","t">>).s
                ELSE ToStr(item)
  ELSE ToStr(item)

extractSlugValue(value) ==
  IF IsString(value) THEN Str(Trim(stripMarkdown(value.s)))
  ELSE IF IsObject(value)
  THEN IF HasKey(value, <<"v","a","l","u","e">>) /\ IsString(Get(value, <<"v","a","l","u","e">>))
       THEN Str(Trim(stripMarkdown(Get(value, <<"v","a","l","u","e">>).s)))
       ELSE With(extractMeaningfulText(value), LAMBDA extracted :
              IF extracted # <<>> THEN Str(Trim(stripMarkdown(extracted))) ELSE Null)
  ELSE Null

\* the labels of one element or wrapper object of a lookup cell
LookupLabelOf(item) ==
  IF IsString(Get(item, <<"n","a","m","e">>)) THEN <<Get(item, <<"n","a","m","e">>).s>>
  ELSE IF IsString(Get(item, <<"v","a","l","u","e">>)) THEN <<Get(item, <<"v","a","l","u","e">>).s>>
  ELSE <<>>

\* the forEach over the elements of an array cell in extractLookupValues
RECURSIVE LookupLabelsOfArray(_)
LookupLabelsOfArray(a) ==
  IF a = <<>> THEN <<>>
  ELSE (IF IsString(a[1]) THEN <<a[1].s>>
        ELSE IF IsObject(a[1]) THEN LookupLabelOf(a[1])
        ELSE <<>>) \o LookupLabelsOfArray(Tail(a))

extractLookupValues(value) ==
  IF IsArray(value) THEN LookupLabelsOfArray(value.a)
  ELSE IF IsObject(value) THEN LookupLabelOf(value)
  ELSE IF IsString(value) THEN <<value.s>>
  ELSE <<>>

resolveRowId(row) ==
  IF IsString(Get(row, <<"i","d">>)) THEN Get(row, <<"i","d">>)
  ELSE IF /\ Truthy(Get(row, <<"_","i","d">>))
          /\ IsObject(Get(row, <<"_","i","d">>))
          /\ HasKey(Get(row, <<"_","i","d">>), <<"v","a","l","u","e">>)
  THEN LET v == Get(Get(row, <<"_","i","d">>), <<"v","a","l","u","e">>)
       IN  Str(IF v.k \in {"undef", "null"} THEN <<>> ELSE ToStr(v))
  ELSE Undef

\* the own enumerable properties of an object; those of an array are its
\* elements under their indices
OwnProperties(v) ==
  IF v.k = "obj" THEN v.f
  ELSE [key \in {NatToStr(i - 1) : i \in DOMAIN v.a} |->
          v.a[CHOOSE i \in DOMAIN v.a : NatToStr(i - 1) = key]]

\* one element of normalizeRows: a row is [id, values], id undefined or a string
NormalizeRow(row) ==
  IF ~Truthy(row) \/ ~IsObject(row)
  THEN [id |-> Undef, values |-> [key \in {} |-> Undef]]
  ELSE IF Truthy(Get(row, <<"v","a","l","u","e","s">>)) /\ IsObject(Get(row, <<"v","a","l","u","e","s">>))
  THEN [id |-> resolveRowId(row), values |-> OwnProperties(Get(row, <<"v","a","l","u","e","s">>))]
  ELSE [id |-> resolveRowId(row),
        values |-> Without(OwnProperties(row), {<<"i","d">>, <<"_","i","d">>, <<"v","a","l","u","e","s">>})]

normalizeRows(rows) == [i \in DOMAIN rows |-> NormalizeRow(rows[i])]

\* a format.type that is not a string: toLowerCase cannot be called on it
NotAString == <<"not a string">>

\* column.format ?? { type: "text" }, read the way the Type Mapper reads it
FormatOf(format) ==
  IF format.k \in {"undef", "null"}
  THEN [type |-> <<"t","e","x","t">>, isArray |-> FALSE, table |-> Undef, options |-> Undef]
  ELSE [type    |-> IF IsString(Get(format, <<"t","y","p","e">>)) THEN Get(format, <<"t","y","p","e">>).s
                    ELSE NotAString,
        isArray |-> Truthy(Get(format, <<"i","s","A","r","r","a","y">>)),
        table   |-> Get(format, <<"t","a","b","l","e">>),
        options |-> Get(format, <<"o","p","t","i","o","n","s">>)]

\* the callback of columns.map in normalizeColumns
NormalizeColumn(column) ==
  [id     |-> ToStr(Get(column, <<"i","d">>)),
   name   |-> IF Get(column, <<"n","a","m","e">>).k \in {"undef", "null"}
              THEN ToStr(Get(column, <<"i","d">>)) ELSE ToStr(Get(column, <<"n","a","m","e">>)),
   format |-> FormatOf(Get(column, <<"f","o","r","m","a","t">>))]

\* column.id of a null or undefined element raises a TypeError
NormalizeColumnsThrows(rawColumns) ==
  \E i \in DOMAIN rawColumns : rawColumns[i].k \in {"undef", "null"}

normalizeColumns(rawColumns) ==
  [i \in DOMAIN rawColumns |-> NormalizeColumn(rawColumns[i])]

\* buildReferenceMap over the first n entries; a later entry overwrites an earlier one
RECURSIVE ReferenceMapOf(_, _)
ReferenceMapOf(entries, n) ==
  IF n = 0 THEN [key \in {} |-> <<>>]
  ELSE LET before == ReferenceMapOf(entries, n - 1)
           entry  == entries[n]
       IN  IF ~Truthy(Get(entry, <<"c","o","d","a","T","a","b","l","e","I","d">>)) \/ ~Truthy(Get(entry, <<"f","r","a","m","e","r","C","o","l","l","e","c","t","i","o","n","I","d">>))
           THEN before
           ELSE LET key == ToStr(Get(entry, <<"c","o","d","a","T","a","b","l","e","I","d">>))
                IN  [t \in (DOMAIN before) \cup {key} |->
                       IF t = key THEN ToStr(Get(entry, <<"f","r","a","m","e","r","C","o","l","l","e","c","t","i","o","n","I","d">>))
                       ELSE before[t]]

buildReferenceMap(entries) == ReferenceMapOf(entries, Len(entries))

(***************************************************************************)
(* Type Mapper                                                             *)
(***************************************************************************)
\* the null a dropped column maps to
NoField == [type |-> "null"]

\* cases of a select/scale column: choice.id || choice.name || choice-<index>
CasesOfChoices(choices) ==
  [i \in DOMAIN choices |->
     [id   |-> IF Truthy(Get(choices[i], <<"i","d">>)) THEN Get(choices[i], <<"i","d">>).s
               ELSE IF Truthy(Get(choices[i], <<"n","a","m","e">>)) THEN Get(choices[i], <<"n","a","m","e">>).s
               ELSE <<"c","h","o","i","c","e","-">> \o NatToStr(i - 1),
      name |-> Get(choices[i], <<"n","a","m","e">>).s]]

\* the type string taken as written, without toLowerCase
BaseTypeOf_AsWritten(column) == column.format.type

\* const baseType = column.format.type.toLowerCase()
BaseTypeOf(column) == ToLower(column.format.type)

\* the heuristic applied to the name alone
LooksLikeImage_NameOnly(name, id) ==
  Includes(name, <<"i","m","a","g","e">>) \/ Includes(name, <<"g","r","a","p","h","i","c">>)

\* the name/id heuristic, on the lower-cased name and id
LooksLikeImage(name, id) ==
  \/ Includes(name, <<"i","m","a","g","e">>)
  \/ Includes(name, <<"g","r","a","p","h","i","c">>)
  \/ Includes(id, <<"i","m","a","g","e">>)
  \/ Includes(id, <<"g","r","a","p","h","i","c">>)

\* the Type Mapper raises a TypeError: format.type has no toLowerCase, or the
\* choice list of a select/scale column has no map, or a choice is null
TypeMapperThrows(column) ==
  LET enumChoices == IF IsArray(column.format.options) THEN column.format.options
                     ELSE Get(column.format.options, <<"c","h","o","i","c","e","s">>)
  IN  \/ column.format.type = NotAString
      \/ /\ BaseTypeOf(column) \in {<<"s","e","l","e","c","t">>, <<"s","c","a","l","e">>}
         /\ ~LooksLikeImage(ToLower(column.name), ToLower(column.id))
         /\ Truthy(enumChoices)
         /\ \/ ~IsArray(enumChoices)
            \/ \E i \in DOMAIN enumChoices.a : enumChoices.a[i].k \in {"undef", "null"}

\* the lookup case that never yields an enum
LookupFieldOf_AlwaysString(column, baseType) ==
  [id |-> column.id, name |-> column.name, type |-> "string"]

\* the lookup case without the test of the base type
LookupFieldOf_AnyBaseType(column, baseType) ==
  IF ~column.format.isArray
  THEN [id |-> column.id, name |-> column.name, type |-> "enum", cases |-> <<>>]
  ELSE [id |-> column.id, name |-> column.name, type |-> "string"]

\* case "person": case "lookup": case "reference":
LookupFieldOf(column, baseType) ==
  IF baseType = <<"l","o","o","k","u","p">> /\ ~column.format.isArray
  THEN [id |-> column.id, name |-> column.name, type |-> "enum", cases |-> <<>>]
  ELSE [id |-> column.id, name |-> column.name, type |-> "string"]

mapCodaTypeToFramerType(column) ==
  LET baseType == BaseTypeOf(column)
      name     == ToLower(column.name)
      id       == ToLower(column.id)
      enumChoices == IF IsArray(column.format.options) THEN column.format.options
                     ELSE Get(column.format.options, <<"c","h","o","i","c","e","s">>)
      Plain(type) == [id |-> column.id, name |-> column.name, type |-> type]
  IN  IF baseType = <<"b","u","t","t","o","n">> THEN NoField
      ELSE IF baseType = <<"i","m","a","g","e">> \/ LooksLikeImage(name, id)
      THEN Plain("image")
      ELSE IF baseType \in {<<"s","e","l","e","c","t">>, <<"s","c","a","l","e">>} /\ Truthy(enumChoices)
      THEN [id |-> column.id, name |-> column.name, type |-> "enum",
            cases |-> CasesOfChoices(enumChoices.a)]
      ELSE IF baseType \in {<<"t","e","x","t">>, <<"e","m","a","i","l">>, <<"p","h","o","n","e">>} THEN Plain("string")
      ELSE IF baseType \in {<<"n","u","m","b","e","r">>, <<"c","u","r","r","e","n","c","y">>, <<"p","e","r","c","e","n","t">>, <<"d","u","r","a","t","i","o","n">>}
      THEN Plain("number")
      ELSE IF baseType = <<"c","h","e","c","k","b","o","x">> THEN Plain("boolean")
      ELSE IF baseType \in {<<"d","a","t","e">>, <<"d","a","t","e","t","i","m","e">>} THEN Plain("date")
      ELSE IF baseType = <<"t","i","m","e">> THEN Plain("string")
      ELSE IF baseType = <<"i","m","a","g","e">> THEN Plain("image")
      ELSE IF baseType = <<"f","i","l","e">>
      THEN [id |-> column.id, name |-> column.name, type |-> "file",
            allowedFileTypes |-> <<<<"*">>>>]
      ELSE IF baseType \in {<<"c","a","n","v","a","s">>, <<"r","i","c","h","t","e","x","t">>} THEN Plain("formattedText")
      ELSE IF baseType \in {<<"p","e","r","s","o","n">>, <<"l","o","o","k","u","p">>, <<"r","e","f","e","r","e","n","c","e">>}
      THEN LookupFieldOf(column, baseType)
      ELSE IF baseType \in {<<"u","r","l">>, <<"l","i","n","k">>} THEN Plain("link")
      ELSE Plain("string")

(***************************************************************************)
(* Value Transformer                                                       *)
(***************************************************************************)
\* the null of an omitted field key
NoEntry == [type |-> "null"]

Entry(type, value) == [type |-> type, value |-> value]

IsDigit(c) == c \in {"0","1","2","3","4","5","6","7","8","9"}

DigitValue(c) == CHOOSE n \in 0..9 : NatToStr(n) = <<c>>

\* the value of a string of digits
RECURSIVE DigitsValue(_)
DigitsValue(s) ==
  IF s = <<>> THEN 0
  ELSE 10 * DigitsValue(SubSeq(s, 1, Len(s) - 1)) + DigitValue(s[Len(s)])

RECURSIVE PowerOfTen(_)
PowerOfTen(n) == IF n = 0 THEN 1 ELSE 10 * PowerOfTen(n - 1)

\* s without the characters in gone: replace(/[...]/g, "")
RECURSIVE RemoveChars(_, _)
RemoveChars(s, gone) ==
  IF s = <<>> THEN <<>>
  ELSE (IF Head(s) \in gone THEN <<>> ELSE <<Head(s)>>) \o RemoveChars(Tail(s), gone)

\* Number(s) for the numerals the inputs use: blank is 0; an optional sign, digits
\* and at most one decimal point; anything else is NaN (ok = FALSE)
ParseNumber(s) ==
  LET t        == Trim(s)
      signed   == t # <<>> /\ Head(t) \in {"-", "+"}
      body     == IF signed THEN Tail(t) ELSE t
      dot      == FirstAt(body, 1, <<".">>)
      whole    == IF dot = 0 THEN body ELSE SubSeq(body, 1, dot - 1)
      fraction == IF dot = 0 THEN <<>> ELSE SubSeq(body, dot + 1, Len(body))
      wellFormed ==
        /\ \A i \in DOMAIN whole : IsDigit(whole[i])
        /\ \A i \in DOMAIN fraction : IsDigit(fraction[i])
        /\ Len(whole) + Len(fraction) > 0
      d        == PowerOfTen(Len(fraction))
      a        == DigitsValue(whole) * d + DigitsValue(fraction)
  IN  IF t = <<>> THEN [ok |-> TRUE, n |-> 0, d |-> 1]
      ELSE IF wellFormed
      THEN [ok |-> TRUE, n |-> IF signed /\ Head(t) = "-" THEN 0 - a ELSE a, d |-> d]
      ELSE [ok |-> FALSE, n |-> 0, d |-> 1]

\* case "number" of transformCodaValue
TransformNumber(value) ==
  IF IsNumber(value) THEN Entry("number", value)
  ELSE IF IsString(value)
  THEN LET cleanValue == Trim(RemoveChars(value.s, {"$", "£", "€", "¥", ","}))
       IN  IF EndsWith(cleanValue, <<"%">>)
           THEN LET parsed == ParseNumber(SubSeq(cleanValue, 1, Len(cleanValue) - 1))
                IN  Entry("number",
                          IF parsed.ok THEN Dec(parsed.n, parsed.d * 100) ELSE Num(0))
           ELSE LET parsed == ParseNumber(cleanValue)
                IN  Entry("number",
                          IF parsed.ok THEN Dec(parsed.n, parsed.d) ELSE Num(0))
  ELSE IF IsObject(value)
  THEN IF Get(value, <<"@","t","y","p","e">>) = Str(<<"M","o","n","e","t","a","r","y","A","m","o","u","n","t">>)
       THEN Entry("number", Get(value, <<"a","m","o","u","n","t">>))
       ELSE IF IsNumber(Get(value, <<"v","a","l","u","e">>)) THEN Entry("number", Get(value, <<"v","a","l","u","e">>))
       ELSE IF IsNumber(Get(value, <<"a","m","o","u","n","t">>)) THEN Entry("number", Get(value, <<"a","m","o","u","n","t">>))
       ELSE Entry("number", Num(0))
  ELSE Entry("number", Num(0))

(***************************************************************************)
(* Dates.  An instant is [day, ms]: days since 1970-01-01 (UTC) and the    *)
(* millisecond of that day.  tz is the host's offset from UTC in minutes   *)
(* (local = UTC + tz), taken as fixed over the run.                        *)
(***************************************************************************)
\* String(n).padStart(width, "0")
RECURSIVE PadStart(_, _)
PadStart(s, width) == IF Len(s) >= width THEN s ELSE PadStart(<<"0">> \o s, width)

Pad2(n) == PadStart(NatToStr(n), 2)

\* days since the epoch of the civil date y-m-d (proleptic Gregorian)
DaysFromCivil(y, m, d) ==
  LET yy  == IF m <= 2 THEN y - 1 ELSE y
      era == yy \div 400
      yoe == yy - era * 400
      mp  == IF m > 2 THEN m - 3 ELSE m + 9
      doy == (153 * mp + 2) \div 5 + d - 1
      doe == yoe * 365 + yoe \div 4 - yoe \div 100 + doy
  IN  era * 146097 + doe - 719468

\* the civil date [y, m, d] of a day number
CivilFromDays(z) ==
  LET zz  == z + 719468
      era == zz \div 146097
      doe == zz - era * 146097
      yoe == (doe - doe \div 1460 + doe \div 36524 - doe \div 146096) \div 365
      doy == doe - (365 * yoe + yoe \div 4 - yoe \div 100)
      mp  == (5 * doy + 2) \div 153
      d   == doy - (153 * mp + 2) \div 5 + 1
      m   == IF mp < 10 THEN mp + 3 ELSE mp - 9
      y   == yoe + era * 400
  IN  [y |-> IF m <= 2 THEN y + 1 ELSE y, m |-> m, d |-> d]

\* the instant t shifted by a number of minutes
ShiftMinutes(t, minutes) ==
  LET total == t.ms + minutes * 60000
  IN  [day |-> t.day + total \div 86400000, ms |-> total % 86400000]

\* the calendar and clock fields of an instant, read in UTC
FieldsOf(t) ==
  LET c == CivilFromDays(t.day)
  IN  [y |-> c.y, m |-> c.m, d |-> c.d,
       h  |-> t.ms \div 3600000,
       mi |-> (t.ms \div 60000) % 60,
       s  |-> (t.ms \div 1000) % 60,
       ms |-> t.ms % 1000]

\* getFullYear, getMonth + 1, getDate, getHours, ... : the fields in local time
LocalFieldsOf(t, tz) == FieldsOf(ShiftMinutes(t, tz))

AllDigits(s) == \A i \in DOMAIN s : IsDigit(s[i])

\* new Date(s) for the ISO 8601 forms the inputs use: YYYY-MM-DD (UTC midnight),
\* YYYY-MM-DDTHH:MM[:SS[.mmm]] with Z (UTC) or without (local time); any other
\* text is an invalid date (ok = FALSE)
ParseDate(s, tz) ==
  LET dateOk ==
        /\ Len(s) >= 10
        /\ AllDigits(SubSeq(s, 1, 4)) /\ s[5] = "-"
        /\ AllDigits(SubSeq(s, 6, 7)) /\ s[8] = "-"
        /\ AllDigits(SubSeq(s, 9, 10))
      y  == DigitsValue(SubSeq(s, 1, 4))
      m  == DigitsValue(SubSeq(s, 6, 7))
      d  == DigitsValue(SubSeq(s, 9, 10))
      dateInRange ==
        /\ m \in 1..12 /\ d \in 1..31
        /\ CivilFromDays(DaysFromCivil(y, m, d)) = [y |-> y, m |-> m, d |-> d]
      utc   == s # <<>> /\ s[Len(s)] = "Z"
      clock == IF utc THEN SubSeq(s, 12, Len(s) - 1) ELSE SubSeq(s, 12, Len(s))
      clockOk ==
        /\ Len(s) >= 16 /\ s[11] = "T"
        /\ Len(clock) \in {5, 8, 12}
        /\ AllDigits(SubSeq(clock, 1, 2)) /\ clock[3] = ":"
        /\ AllDigits(SubSeq(clock, 4, 5))
        /\ Len(clock) >= 8 => (clock[6] = ":" /\ AllDigits(SubSeq(clock, 7, 8)))
        /\ Len(clock) = 12 => (clock[9] = "." /\ AllDigits(SubSeq(clock, 10, 12)))
      h  == DigitsValue(SubSeq(clock, 1, 2))
      mi == DigitsValue(SubSeq(clock, 4, 5))
      sec == IF Len(clock) >= 8 THEN DigitsValue(SubSeq(clock, 7, 8)) ELSE 0
      ms == IF Len(clock) = 12 THEN DigitsValue(SubSeq(clock, 10, 12)) ELSE 0
      clockInRange == h <= 23 /\ mi <= 59 /\ sec <= 59
      asWritten == [day |-> DaysFromCivil(y, m, d),
                    ms  |-> ((h * 60 + mi) * 60 + sec) * 1000 + ms]
      invalid == [ok |-> FALSE, day |-> 0, ms |-> 0]
  IN  IF ~dateOk THEN invalid
      ELSE IF ~dateInRange THEN invalid
      ELSE IF Len(s) = 10
      THEN [ok |-> TRUE, day |-> DaysFromCivil(y, m, d), ms |-> 0]
      ELSE IF ~clockOk THEN invalid
      ELSE IF ~clockInRange THEN invalid
      ELSE LET t == IF utc THEN asWritten ELSE ShiftMinutes(asWritten, 0 - tz)
           IN  [ok |-> TRUE, day |-> t.day, ms |-> t.ms]

\* the time part of Date.prototype.toISOString: HH:MM:SS.mmmZ
IsoTimePart(f) ==
  Pad2(f.h) \o <<":">> \o Pad2(f.mi) \o <<":">> \o Pad2(f.s) \o <<".">>
    \o PadStart(NatToStr(f.ms), 3) \o <<"Z">>

\* Date.prototype.toISOString, for the years 0000..9999
ToISOString(t) ==
  LET f == FieldsOf(t)
  IN  PadStart(NatToStr(f.y), 4) \o <<"-">> \o Pad2(f.m) \o <<"-">> \o Pad2(f.d)
        \o <<"T">> \o IsoTimePart(f)

\* the value the date case parses: the cell, or its value property
DateValueOf(value) ==
  LET Datelike(v) == IsString(v) \/ IsNumber(v)
  IN  IF IsObject(value) /\ HasKey(value, <<"v","a","l","u","e">>)
      THEN (IF Datelike(Get(value, <<"v","a","l","u","e">>)) THEN Get(value, <<"v","a","l","u","e">>) ELSE Str(<<>>))
      ELSE IF Datelike(value) THEN value
      ELSE Str(<<>>)

\* YYYY-MM-DD of the fields f, the year as String(year)
DatePart(f) == NatToStr(f.y) \o <<"-">> \o Pad2(f.m) \o <<"-">> \o Pad2(f.d)

\* the date case that reads the calendar day of a date column in local time
TransformDate_LocalDay(value, codaColumnType, tz) ==
  With(ParseDate(ToStr(DateValueOf(value)), tz), LAMBDA dateObj :
    IF ~dateObj.ok THEN NoEntry
    ELSE IF codaColumnType = <<"d","a","t","e">>
    THEN With(LocalFieldsOf(dateObj, tz), LAMBDA localF :
           Entry("date", Str(DatePart(localF))))
    ELSE IF codaColumnType = <<"t","i","m","e">>
    THEN With(FieldsOf(dateObj), LAMBDA utcF :
           Entry("date", Str(<<"1","9","7","0","-","0","1","-","0","1","T">> \o IsoTimePart(utcF))))
    ELSE IF codaColumnType = <<"d","a","t","e","t","i","m","e">>
    THEN With(LocalFieldsOf(dateObj, tz), LAMBDA localF :
           Entry("date", Str(DatePart(localF) \o <<"T">> \o IsoTimePart(localF))))
    ELSE Entry("date", Str(ToISOString(dateObj))))

\* case "date" of transformCodaValue
TransformDate(value, codaColumnType, tz) ==
  With(ParseDate(ToStr(DateValueOf(value)), tz), LAMBDA dateObj :
    IF ~dateObj.ok THEN NoEntry
    ELSE IF codaColumnType = <<"d","a","t","e">>
    THEN With(FieldsOf(dateObj), LAMBDA utcF : Entry("date", Str(DatePart(utcF))))
    ELSE IF codaColumnType = <<"t","i","m","e">>
    THEN With(FieldsOf(dateObj), LAMBDA utcF :
           Entry("date", Str(<<"1","9","7","0","-","0","1","-","0","1","T">> \o IsoTimePart(utcF))))
    ELSE IF codaColumnType = <<"d","a","t","e","t","i","m","e">>
    THEN With(LocalFieldsOf(dateObj, tz), LAMBDA localF :
           Entry("date", Str(DatePart(localF) \o <<"T">> \o IsoTimePart(localF))))
    ELSE Entry("date", Str(ToISOString(dateObj))))

\* the rendering at the end of formatTimeValue
RenderTime(hours, minutes, secondsVal, use12HourTime) ==
  LET tail == <<":">> \o Pad2(minutes)
                \o (IF secondsVal > 0 THEN <<":">> \o Pad2(secondsVal) ELSE <<>>)
  IN  IF use12HourTime
      THEN NatToStr(IF hours % 12 = 0 THEN 12 ELSE hours % 12) \o tail
             \o (IF hours >= 12 THEN <<" ","P","M">> ELSE <<" ","A","M">>)
      ELSE Pad2(hours) \o tail

\* value.match(/^([0-1]?\d|2[0-3]):([0-5]\d)(:([0-5]\d))?$/): [ok, h, mi, s]
MatchTimeOnly(s) ==
  LET colon == FirstAt(s, 1, <<":">>)
      hourS == SubSeq(s, 1, colon - 1)
      rest  == SubSeq(s, colon + 1, Len(s))
      hourOk ==
        \/ Len(hourS) = 1 /\ IsDigit(hourS[1])
        \/ Len(hourS) = 2 /\ hourS[1] \in {"0", "1"} /\ IsDigit(hourS[2])
        \/ Len(hourS) = 2 /\ hourS[1] = "2" /\ hourS[2] \in {"0", "1", "2", "3"}
      Sixty(a, b) == a \in {"0", "1", "2", "3", "4", "5"} /\ IsDigit(b)
      restOk ==
        \/ Len(rest) = 2 /\ Sixty(rest[1], rest[2])
        \/ /\ Len(rest) = 5 /\ Sixty(rest[1], rest[2])
           /\ rest[3] = ":" /\ Sixty(rest[4], rest[5])
  IN  IF colon >= 2 /\ hourOk /\ restOk
      THEN [ok |-> TRUE, h |-> DigitsValue(hourS), mi |-> DigitsValue(SubSeq(rest, 1, 2)),
            s |-> IF Len(rest) = 5 THEN DigitsValue(SubSeq(rest, 4, 5)) ELSE 0]
      ELSE [ok |-> FALSE, h |-> 0, mi |-> 0, s |-> 0]

\* the formatted time, or Null
formatTimeValue(value, use12HourTime, tz) ==
  IF IsString(value)
  THEN With(MatchTimeOnly(value.s), LAMBDA timeOnlyMatch :
         IF timeOnlyMatch.ok
         THEN Str(RenderTime(timeOnlyMatch.h, timeOnlyMatch.mi, timeOnlyMatch.s,
                             use12HourTime))
         ELSE With(ParseDate(value.s, tz), LAMBDA dateObj :
                IF dateObj.ok
                THEN With(LocalFieldsOf(dateObj, tz), LAMBDA local :
                       Str(RenderTime(local.h, local.mi, local.s, use12HourTime)))
                ELSE Null))
  ELSE Null

\* the sanitized HTML that marked and sanitize-html make of a markdown text; the
\* two libraries are outside the repository and the result is left symbolic
markdownToSanitizedHtml(markdown) == [k |-> "html", markdown |-> markdown]

\* JSON.stringify(value), left symbolic except for the empty object
JsonStringify(value) ==
  IF value = EmptyObj THEN Str(<<"{","}">>) ELSE [k |-> "json", of |-> value]

\* case "formattedText" of transformCodaValue
TransformFormattedText(value, codaColumnType) ==
  IF codaColumnType \in {<<"c","a","n","v","a","s">>, <<"r","i","c","h","t","e","x","t">>}
  THEN LET serialized == JsonStringify(value)
           markdown ==
             IF IsObject(value)
             THEN IF IsString(Get(value, <<"c","o","n","t","e","n","t">>)) THEN Get(value, <<"c","o","n","t","e","n","t">>)
                  ELSE IF IsString(Get(value, <<"v","a","l","u","e">>)) THEN Get(value, <<"v","a","l","u","e">>)
                  ELSE IF serialized # Str(<<"{","}">>) THEN serialized
                  ELSE Str(<<>>)
             ELSE IF IsString(value) THEN value
             ELSE Str(<<>>)
       IN  Entry("formattedText", markdownToSanitizedHtml(markdown))
  ELSE Entry("formattedText", Str(ToStr(value)))

\* rawArray.map(extractMeaningfulText).filter(Boolean)
RECURSIVE MeaningfulTexts(_)
MeaningfulTexts(a) ==
  IF a = <<>> THEN <<>>
  ELSE LET text == extractMeaningfulText(a[1])
       IN  (IF text # <<>> THEN <<text>> ELSE <<>>) \o MeaningfulTexts(Tail(a))

\* the text of a string cell before stripMarkdown
TextValueOf(value) ==
  IF IsArray(value) \/ (Truthy(value) /\ IsObject(value) /\ HasKey(value, <<"r","a","w","V","a","l","u","e">>))
  THEN Join(MeaningfulTexts(IF IsArray(value) THEN value.a
                            ELSE IF IsArray(Get(value, <<"r","a","w","V","a","l","u","e">>))
                            THEN Get(value, <<"r","a","w","V","a","l","u","e">>).a
                            ELSE <<>>),
            <<","," ">>)
  ELSE extractMeaningfulText(value)

\* the string case that returns null when the time formatter does
TransformString_OmitsUnparsedTime(value, codaColumnType, use12HourTime, tz) ==
  With(IF codaColumnType = <<"t","i","m","e">> THEN formatTimeValue(value, use12HourTime, tz) ELSE Null,
       LAMBDA formatted :
         IF Truthy(formatted) THEN Entry("string", formatted)
         ELSE IF codaColumnType = <<"t","i","m","e">> THEN NoEntry
         ELSE Entry("string", Str(stripMarkdown(TextValueOf(value)))))

\* case "string" of transformCodaValue
TransformString(value, codaColumnType, use12HourTime, tz) ==
  With(IF codaColumnType = <<"t","i","m","e">> THEN formatTimeValue(value, use12HourTime, tz)
       ELSE Null,
       LAMBDA formatted :
         IF Truthy(formatted) THEN Entry("string", formatted)
         ELSE Entry("string", Str(stripMarkdown(TextValueOf(value)))))

\* text.match(/!\[[^\]]*\]\(([^)]+)\)/): the captured group of the leftmost match
\* at or after position i, as [ok, url]
RECURSIVE MatchMarkdownImage(_, _)
MatchMarkdownImage(s, i) ==
  IF i > Len(s) THEN [ok |-> FALSE, url |-> <<>>]
  ELSE LET j == IF MatchAt(s, i, <<"!", "[">>) THEN FirstAt(s, i + 2, <<"]">>) ELSE 0
           m == IF j > 0 /\ MatchAt(s, j + 1, <<"(">>)
                THEN FirstAt(s, j + 2, <<")">>) ELSE 0
       IN  IF j > 0 /\ m >= j + 3
           THEN [ok |-> TRUE, url |-> SubSeq(s, j + 2, m - 1)]
           ELSE MatchMarkdownImage(s, i + 1)

extractUrlFromMarkdown(text) ==
  LET mdImg == MatchMarkdownImage(text, 1)
  IN  IF mdImg.ok THEN Trim(mdImg.url)
      ELSE IF Len(text) >= 6 /\ StartsWith(text, Fence) /\ EndsWith(text, Fence)
      THEN Trim(SubSeq(text, 4, Len(text) - 3))
      ELSE IF /\ Len(text) >= 2
              /\ text[1] = Backquote /\ text[Len(text)] = Backquote
              /\ \A i \in 2..(Len(text) - 1) : text[i] # Backquote
      THEN Trim(SubSeq(text, 2, Len(text) - 1))
      ELSE Trim(text)

isValidAssetUrl(url) ==
  LET trimmed == Trim(url)
  IN  \/ StartsWith(trimmed, <<"h","t","t","p",":","/","/">>)
      \/ StartsWith(trimmed, <<"h","t","t","p","s",":","/","/">>)
      \/ Includes(trimmed, <<"c","o","d","a","h","o","s","t","e","d",".","i","o","/">>)

ImageExtensions ==
  {<<"j","p","g">>, <<"j","p","e","g">>, <<"p","n","g">>, <<"g","i","f">>, <<"w","e","b","p">>, <<"s","v","g">>, <<"b","m","p">>, <<"t","i","f">>, <<"t","i","f","f">>,
   <<"i","c","o">>, <<"a","p","n","g">>, <<"a","v","i","f">>}

\* the two patterns of isLikelyImageUrl: an http(s) URL ending in an image file
\* extension (any letter case, an optional query), or one on codahosted.io
isLikelyImageUrl(url) ==
  LET trimmed == Trim(url)
      lower   == ToLower(trimmed)
      start   == IF StartsWith(lower, <<"h","t","t","p","s",":","/","/">>) THEN 9
                 ELSE IF StartsWith(lower, <<"h","t","t","p",":","/","/">>) THEN 8 ELSE 0
  IN  \/ /\ start > 0
         /\ \E p \in (start + 1)..Len(lower) : \E ext \in ImageExtensions :
              /\ MatchAt(lower, p, <<".">> \o ext)
              /\ \A i \in start..(p - 1) : ~IsSpace(lower[i])
              /\ LET q == p + Len(ext) + 1
                 IN  \/ q = Len(lower) + 1
                     \/ /\ q <= Len(lower) /\ lower[q] = "?"
                        /\ \A i \in q..Len(lower) : lower[i] # "\n"
      \/ StartsWith(trimmed, <<"h","t","t","p",":","/","/","c","o","d","a","h","o","s","t","e","d",".","i","o","/">>)
      \/ StartsWith(trimmed, <<"h","t","t","p","s",":","/","/","c","o","d","a","h","o","s","t","e","d",".","i","o","/">>)

Acceptable(url) == isValidAssetUrl(url) \/ isLikelyImageUrl(url)

\* the first acceptable URL among url, contentUrl, thumbnailUrl of an ImageObject
ImageObjectUrl(obj) ==
  LET Ok(key) == IsString(Get(obj, key)) /\ Acceptable(Get(obj, key).s)
  IN  IF Get(obj, <<"@","t","y","p","e">>) # Str(<<"I","m","a","g","e","O","b","j","e","c","t">>) THEN <<>>
      ELSE IF Ok(<<"u","r","l">>) THEN Get(obj, <<"u","r","l">>).s
      ELSE IF Ok(<<"c","o","n","t","e","n","t","U","r","l">>) THEN Get(obj, <<"c","o","n","t","e","n","t","U","r","l">>).s
      ELSE IF Ok(<<"t","h","u","m","b","n","a","i","l","U","r","l">>) THEN Get(obj, <<"t","h","u","m","b","n","a","i","l","U","r","l">>).s
      ELSE <<>>

\* the loop over the elements of an array cell: the first element that yields a URL
RECURSIVE ImageUrlOfArray(_)
ImageUrlOfArray(a) ==
  IF a = <<>> THEN <<>>
  ELSE LET found == IF Truthy(a[1]) /\ IsObject(a[1]) THEN ImageObjectUrl(a[1]) ELSE <<>>
       IN  IF found # <<>> THEN found ELSE ImageUrlOfArray(Tail(a))

\* the generic wrapper keys; found is the URL the ImageObject step left
GenericImageUrl(value, found) ==
  LET Has(key) == IsString(Get(value, key))
  IN  IF Has(<<"u","r","l">>) THEN Get(value, <<"u","r","l">>).s
      ELSE IF Has(<<"l","i","n","k">>) THEN Get(value, <<"l","i","n","k">>).s
      ELSE IF Has(<<"v","a","l","u","e">>) THEN extractUrlFromMarkdown(Get(value, <<"v","a","l","u","e">>).s)
      ELSE IF Has(<<"r","a","w","V","a","l","u","e">>) THEN extractUrlFromMarkdown(Get(value, <<"r","a","w","V","a","l","u","e">>).s)
      ELSE IF Has(<<"i","m","a","g","e","U","r","l">>) THEN Get(value, <<"i","m","a","g","e","U","r","l">>).s
      ELSE IF Has(<<"t","h","u","m","b","n","a","i","l","U","r","l">>) THEN Get(value, <<"t","h","u","m","b","n","a","i","l","U","r","l">>).s
      ELSE found

\* the linkedRow keys; found is the URL the generic keys left
LinkedRowImageUrl(value, found) ==
  LET linkedRow == Get(value, <<"l","i","n","k","e","d","R","o","w">>)
  IN  IF Truthy(linkedRow) /\ IsObject(linkedRow)
      THEN IF IsString(Get(linkedRow, <<"u","r","l">>)) THEN Get(linkedRow, <<"u","r","l">>).s
           ELSE IF IsString(Get(linkedRow, <<"i","m","a","g","e","U","r","l">>)) THEN Get(linkedRow, <<"i","m","a","g","e","U","r","l">>).s
           ELSE found
      ELSE found

\* the candidate URL of an image cell: imageUrl before the final test
ImageCandidate(value) ==
  IF IsString(value) THEN extractUrlFromMarkdown(value.s)
  ELSE IF IsObject(value)
  THEN LinkedRowImageUrl(value,
         GenericImageUrl(value,
           IF IsArray(value) THEN ImageUrlOfArray(value.a) ELSE ImageObjectUrl(value)))
  ELSE <<>>

\* case "image" of transformCodaValue
TransformImage(value) ==
  With(ImageCandidate(value), LAMBDA imageUrl :
    IF imageUrl # <<>> /\ Acceptable(imageUrl)
    THEN Entry("image", Str(Trim(imageUrl)))
    ELSE NoEntry)

\* case "file" of transformCodaValue
TransformFile(value) ==
  With(IF IsString(value) THEN extractUrlFromMarkdown(value.s)
       ELSE IF IsObject(value)
       THEN (IF IsString(Get(value, <<"u","r","l">>)) THEN Get(value, <<"u","r","l">>).s
             ELSE IF IsString(Get(value, <<"l","i","n","k">>)) THEN Get(value, <<"l","i","n","k">>).s
             ELSE <<>>)
       ELSE <<>>,
       LAMBDA fileUrl :
         IF fileUrl # <<>> /\ isValidAssetUrl(fileUrl)
         THEN Entry("file", Str(Trim(fileUrl)))
         ELSE NoEntry)

\* case "link" of transformCodaValue
TransformLink(value) ==
  Entry("link",
        IF IsObject(value)
        THEN (IF IsString(Get(value, <<"u","r","l">>)) THEN Get(value, <<"u","r","l">>) ELSE Str(<<>>))
        ELSE IF IsString(value) THEN value
        ELSE Str(<<>>))

\* the referenced item id, or Null
extractReferenceId(value) ==
  IF IsString(value) THEN value
  ELSE IF IsObject(value)
  THEN IF IsString(Get(value, <<"i","d">>)) THEN Get(value, <<"i","d">>)
       ELSE IF IsString(Get(value, <<"@","i","d">>)) THEN Get(value, <<"@","i","d">>)
       ELSE Null
  ELSE Null

\* processItem of extractReferenceIds
ProcessReferenceItem(item) ==
  IF IsString(item) THEN item
  ELSE IF IsObject(item)
  THEN IF IsString(Get(item, <<"r","o","w","I","d">>)) THEN Get(item, <<"r","o","w","I","d">>)
       ELSE IF IsString(Get(item, <<"i","d">>)) THEN Get(item, <<"i","d">>)
       ELSE IF IsString(Get(item, <<"@","i","d">>)) THEN Get(item, <<"@","i","d">>)
       ELSE Null
  ELSE Null

RECURSIVE ReferenceIdsOfArray(_)
ReferenceIdsOfArray(a) ==
  IF a = <<>> THEN <<>>
  ELSE LET id == ProcessReferenceItem(a[1])
       IN  (IF Truthy(id) THEN <<id>> ELSE <<>>) \o ReferenceIdsOfArray(Tail(a))

extractReferenceIds(value) ==
  IF IsArray(value) THEN ReferenceIdsOfArray(value.a)
  ELSE ReferenceIdsOfArray(<<value>>)

\* the label the enum case of transformCodaValue reads from the raw value
EnumLabelOf(value) ==
  IF IsObject(value)
  THEN IF IsString(Get(value, <<"n","a","m","e">>)) THEN Get(value, <<"n","a","m","e">>).s
       ELSE IF IsString(Get(value, <<"i","d">>)) THEN Get(value, <<"i","d">>).s
       ELSE <<>>
  ELSE IF IsString(value) THEN value.s
  ELSE IF IsArray(value) /\ value.a # <<>>
  THEN LET firstItem == value.a[1]
       IN  IF IsObject(firstItem) /\ HasKey(firstItem, <<"n","a","m","e">>)
           THEN (IF Get(firstItem, <<"n","a","m","e">>).k \in {"undef", "null"} THEN <<>>
                 ELSE ToStr(Get(firstItem, <<"n","a","m","e">>)))
           ELSE IF IsString(firstItem) THEN firstItem.s
           ELSE <<>>
  ELSE <<>>

\* case "enum" of transformCodaValue
TransformEnum(value, field) ==
  LET label     == EnumLabelOf(value)
      enumValue == IF label # <<>> THEN Trim(StripFences(label)) ELSE label
      cases     == IF "cases" \in DOMAIN field THEN field.cases ELSE <<>>
      ById(i)   == cases[i].id = enumValue
      ByName(i) == cases[i].name = enumValue
      First(P(_)) == CHOOSE i \in DOMAIN cases : P(i) /\ \A j \in 1..(i - 1) : ~P(j)
  IN  IF enumValue # <<>> /\ \E i \in DOMAIN cases : ById(i)
      THEN Entry("enum", Str(cases[First(ById)].id))
      ELSE IF enumValue # <<>> /\ \E i \in DOMAIN cases : ByName(i)
      THEN Entry("enum", Str(cases[First(ByName)].id))
      ELSE IF enumValue # <<>> THEN Entry("enum", Str(enumValue))
      ELSE NoEntry

\* an empty string entry whatever the field type
CanonicalEmpty_AlwaysString(type) ==
  IF type = "date" THEN NoEntry ELSE Entry("string", Str(<<>>))

\* the value for a null, undefined or blank cell
CanonicalEmpty(type) ==
  CASE type = "string"                   -> Entry("string", Str(<<>>))
    [] type = "number"                   -> Entry("number", Num(0))
    [] type = "boolean"                  -> Entry("boolean", Bool(FALSE))
    [] type = "date"                     -> NoEntry
    [] type = "image"                    -> Entry("image", Str(<<>>))
    [] type = "file"                     -> Entry("file", Str(<<>>))
    [] type = "formattedText"            -> Entry("formattedText", Str(<<>>))
    [] type = "link"                     -> Entry("link", Str(<<>>))
    [] type = "collectionReference"      -> Entry("collectionReference", Str(<<>>))
    [] type = "multiCollectionReference" -> Entry("multiCollectionReference", Arr(<<>>))
    [] type = "enum"                     -> Entry("enum", Str(<<>>))
    [] OTHER                             -> Entry("string", Str(<<>>))

\* value === null || value === undefined || blank string
IsBlank(value) ==
  \/ value.k \in {"null", "undef"}
  \/ IsString(value) /\ Trim(value.s) = <<>>

\* tz is the time-zone offset of the host, which the date methods read
transformCodaValue(value, field, codaColumnType, use12HourTime, tz) ==
  IF IsBlank(value) THEN CanonicalEmpty(field.type)
  ELSE CASE field.type = "number"  -> TransformNumber(value)
         [] field.type = "boolean" -> Entry("boolean", Bool(Truthy(value)))
         [] field.type = "date"    -> TransformDate(value, codaColumnType, tz)
         [] field.type = "formattedText" -> TransformFormattedText(value, codaColumnType)
         [] field.type = "string"  ->
              TransformString(value, codaColumnType, use12HourTime, tz)
         [] field.type = "image"   -> TransformImage(value)
         [] field.type = "file"    -> TransformFile(value)
         [] field.type = "link"    -> TransformLink(value)
         [] field.type = "collectionReference" ->
              LET itemId == extractReferenceId(value)
              IN  Entry("collectionReference",
                        IF itemId = Null THEN Str(<<>>) ELSE itemId)
         [] field.type = "multiCollectionReference" ->
              Entry("multiCollectionReference", Arr(extractReferenceIds(value)))
         [] field.type = "enum"    -> TransformEnum(value, field)
         [] OTHER                  -> Entry("string", Str(ToStr(value)))

(***************************************************************************)
(* Batch Assembler: buildFieldsAndItems, one action per loop iteration     *)
(***************************************************************************)
VARIABLES
  columns,          \* options.columns
  rows,             \* options.rows, as normalizeRows returns them
  slugFieldId,      \* options.slugFieldId
  referenceMap,     \* options.referenceMap, as buildReferenceMap returns it
  use12HourTime,    \* options.use12HourTime
  hostOffset,       \* the host's time-zone offset in minutes
  pc,               \* position in buildFieldsAndItems
  colIdx,           \* columns mapped so far
  scanIdx,          \* rows visited by the enum-domain scan
  rowIdx,           \* rows visited by the row loop
  fields,           \* the field list
  lookupValueSets,  \* field id -> labels in insertion order
  warnings,
  skippedCount,
  items,
  caller,           \* the pack action that runs, "none" for a direct call
  params,           \* the parameters of the pack action, as received
  remote,           \* the managed collections of the Framer project
  calls,            \* the calls made on the Framer client, in order
  collection,       \* what getOrCreateManagedCollection returned
  existingFields,   \* what target.getFields() returned
  mergedFields,     \* what mergeFieldsWithExistingFields returned
  compatibleFields, \* the list setCollectionFields passed to setFields
  fieldsSet,        \* what setCollectionFields returned
  returned,         \* what execute returned or threw
  changedPaths,     \* what framer.getChangedPaths() resolves to
  publishResult,    \* what framer.publish() resolved to
  invocations,      \* the push invocations that run at the same time
  round,            \* 1 in the first push of a snapshot, 2 in its repetition
  firstPush         \* the outcome of the first push while the second runs

vars == <<columns, rows, slugFieldId, referenceMap, use12HourTime, hostOffset,
          pc, colIdx, scanIdx, rowIdx, fields, lookupValueSets, warnings,
          skippedCount, items, caller, params, remote, calls, collection,
          existingFields, mergedFields, compatibleFields, fieldsSet, returned,
          changedPaths, publishResult, invocations, round, firstPush>>

\* the state of PublishProject, of concurrent invocations and of a repeated push
others == <<changedPaths, publishResult, invocations, round, firstPush>>

pack == <<caller, params, remote, calls, collection, existingFields, mergedFields,
          compatibleFields, fieldsSet, returned>>

inputs == <<columns, rows, slugFieldId, referenceMap, use12HourTime, hostOffset>>

\* the warning with the column name and the table id interchanged
NoMappingWarning_Swapped(name, tableId) ==
  <<"N","o"," ","F","r","a","m","e","r"," ","c","o","l","l","e","c","t","i","o","n"," ","m","a","p","p","i","n","g"," ","f","o","u","n","d"," ","f","o","r"," ","l","o","o","k","u","p"," ","f","i","e","l","d"," ","\"">> \o tableId
    \o <<"\""," ","(","C","o","d","a"," ","t","a","b","l","e"," ">> \o name \o <<")",".">>

\* the warning for an array lookup column whose table has no mapping
NoMappingWarning(name, tableId) ==
  <<"N","o"," ","F","r","a","m","e","r"," ","c","o","l","l","e","c","t","i","o","n"," ","m","a","p","p","i","n","g"," ","f","o","u","n","d"," ","f","o","r"," ","l","o","o","k","u","p"," ","f","i","e","l","d"," ","\"">> \o name
    \o <<"\""," ","(","C","o","d","a"," ","t","a","b","l","e"," ">> \o tableId \o <<")",".">>

MissingIdWarning(index) ==
  <<"R","o","w"," ","a","t"," ","i","n","d","e","x"," ">> \o NatToStr(index) \o <<" ","i","s"," ","m","i","s","s","i","n","g"," ","a"," ","r","o","w"," ","i","d"," ","a","n","d"," ","w","a","s"," ","s","k","i","p","p","e","d",".">>

MissingSlugWarning(rowId) ==
  <<"R","o","w"," ">> \o rowId \o <<" ","i","s"," ","m","i","s","s","i","n","g"," ","a"," ","s","l","u","g"," ","v","a","l","u","e"," ","a","n","d"," ","w","a","s"," ","s","k","i","p","p","e","d",".">>

\* the callback of columns.map: [field, warnings], field = NoField for a dropped column
MapColumnResult(column, refMap) ==
  LET mappedField == mapCodaTypeToFramerType(column)
      refId       == Get(column.format.table, <<"i","d">>)
      linked      == IF Truthy(refId) /\ IsString(refId) /\ refId.s \in DOMAIN refMap
                     THEN Str(refMap[refId.s]) ELSE Undef
  IN  IF /\ mappedField # NoField
         /\ mappedField.type = "string"
         /\ ToLower(column.format.type) = <<"l","o","o","k","u","p">>
         /\ column.format.isArray
      THEN IF Truthy(linked)
           THEN [field |-> [id |-> column.id, name |-> column.name,
                            type |-> "multiCollectionReference",
                            collectionId |-> linked.s],
                 warnings |-> <<>>]
           ELSE IF Truthy(refId)
           THEN [field |-> mappedField,
                 warnings |-> <<NoMappingWarning(column.name, ToStr(refId))>>]
           ELSE [field |-> mappedField, warnings |-> <<>>]
      ELSE [field |-> mappedField, warnings |-> <<>>]

\* columns.find(column => column.id === field.id && lookup && field.type === "enum")
IsLookupField(field) ==
  \E i \in DOMAIN columns :
    /\ columns[i].id = field.id
    /\ ToLower(columns[i].format.type) = <<"l","o","o","k","u","p">>
    /\ field.type = "enum"

\* fieldMap.get(fieldId): the last field with that id, NoField if none
FieldOf(fieldId) ==
  IF \E i \in DOMAIN fields : fields[i].id = fieldId
  THEN fields[CHOOSE i \in DOMAIN fields :
                /\ fields[i].id = fieldId
                /\ \A j \in (i + 1)..Len(fields) : fields[j].id # fieldId]
  ELSE NoField

\* codaColumnTypeMap.get(fieldId) || "text"
CodaTypeOf(fieldId) ==
  LET last == CHOOSE i \in DOMAIN columns :
                /\ columns[i].id = fieldId
                /\ \A j \in (i + 1)..Len(columns) : columns[j].id # fieldId
  IN  IF (\E i \in DOMAIN columns : columns[i].id = fieldId)
         /\ ToLower(columns[last].format.type) # <<>>
      THEN ToLower(columns[last].format.type)
      ELSE <<"t","e","x","t">>

\* Array.prototype.push for each label: no duplicate is collapsed
AddAll_NoDedup(set, labels) == set \o labels

\* Set.prototype.add for each label, in order
RECURSIVE AddAll(_, _)
AddAll(set, labels) ==
  IF labels = <<>> THEN set
  ELSE AddAll(IF \E i \in DOMAIN set : set[i] = Head(labels)
              THEN set ELSE Append(set, Head(labels)),
              Tail(labels))

\* the labels one row adds for one lookup field
ScannedLabels(row, fieldId) ==
  LET value == Lookup(row.values, fieldId)
      found == extractLookupValues(value)
  IN  IF ~Truthy(value) THEN <<>>
      ELSE [i \in DOMAIN found |-> Trim(StripFences(found[i]))]

\* the loop over Object.entries(row.values) in the row callback
FieldDataOf(row) ==
  LET known == {fieldId \in DOMAIN row.values : FieldOf(fieldId) # NoField}
      all   == [fieldId \in known |->
                  transformCodaValue(row.values[fieldId], FieldOf(fieldId),
                                     CodaTypeOf(fieldId), use12HourTime, hostOffset)]
  IN  With(all, LAMBDA transformed :
        [fieldId \in {id \in known : transformed[id] # NoEntry} |->
           transformed[fieldId]])

\* a row id that is undefined only
IsMissingRowId_UndefinedOnly(rowId) == rowId = Undef

\* if (!rowId)
IsMissingRowId(rowId) == ~Truthy(rowId)

\* one call of the callback of columns.map; a TypeError of the Type Mapper
\* leaves buildFieldsAndItems
MapColumn ==
  /\ pc = "fields"
  /\ colIdx < Len(columns)
  /\ IF TypeMapperThrows(columns[colIdx + 1])
     THEN /\ pc' = "threw"
          /\ UNCHANGED <<fields, warnings, colIdx>>
     ELSE /\ LET result == MapColumnResult(columns[colIdx + 1], referenceMap)
             IN  /\ fields' = IF result.field = NoField THEN fields
                              ELSE Append(fields, result.field)
                 /\ warnings' = warnings \o result.warnings
          /\ colIdx' = colIdx + 1
          /\ pc' = pc
  /\ UNCHANGED <<inputs, pack, others, scanIdx, rowIdx, lookupValueSets, skippedCount, items>>

\* the row loop entered without the enum-domain scan
StartScan_NoScan ==
  /\ pc = "fields"
  /\ colIdx = Len(columns)
  /\ lookupValueSets' = lookupValueSets
  /\ pc' = "rows"
  /\ UNCHANGED <<inputs, pack, others, colIdx, scanIdx, rowIdx, fields, warnings, skippedCount, items>>

\* if (lookupFields.length > 0) and the creation of the empty label sets
StartScan ==
  /\ pc = "fields"
  /\ colIdx = Len(columns)
  /\ LET lookupIds == {fields[i].id : i \in {j \in DOMAIN fields : IsLookupField(fields[j])}}
     IN  /\ lookupValueSets' = [id \in lookupIds |-> <<>>]
         /\ pc' = IF lookupIds # {} THEN "scan" ELSE "rows"
  /\ UNCHANGED <<inputs, pack, others, colIdx, scanIdx, rowIdx, fields, warnings, skippedCount, items>>

ScanRow ==
  /\ pc = "scan"
  /\ scanIdx < Len(rows)
  /\ lookupValueSets' =
       [id \in DOMAIN lookupValueSets |->
          AddAll(lookupValueSets[id], ScannedLabels(rows[scanIdx + 1], id))]
  /\ scanIdx' = scanIdx + 1
  /\ UNCHANGED <<inputs, pack, others, pc, colIdx, rowIdx, fields, warnings, skippedCount, items>>

\* the final case list of each lookup field
AssignCases ==
  /\ pc = "scan"
  /\ scanIdx = Len(rows)
  /\ fields' =
       [i \in DOMAIN fields |->
          IF IsLookupField(fields[i]) /\ "cases" \in DOMAIN fields[i]
          THEN LET uniqueValues == SelectSeq(lookupValueSets[fields[i].id],
                                             LAMBDA value : Len(value) > 0)
               IN  [fields[i] EXCEPT !.cases =
                      [n \in DOMAIN uniqueValues |->
                         [id |-> uniqueValues[n], name |-> uniqueValues[n]]]]
          ELSE fields[i]]
  /\ pc' = "rows"
  /\ UNCHANGED <<inputs, pack, others, colIdx, scanIdx, rowIdx, lookupValueSets, warnings,
                 skippedCount, items>>

\* the callback of the row loop that skips a row without an id silently
TransformRow_SilentSkip ==
  /\ pc = "rows"
  /\ rowIdx < Len(rows)
  /\ LET row   == rows[rowIdx + 1]
         rowId == row.id
     IN  IF IsMissingRowId(rowId)
         THEN /\ skippedCount' = skippedCount + 1
              /\ warnings' = warnings
              /\ items' = items
         ELSE With(extractSlugValue(Lookup(row.values, slugFieldId)), LAMBDA slugValue :
                IF ~Truthy(slugValue)
                THEN /\ skippedCount' = skippedCount + 1
                     /\ warnings' = Append(warnings, MissingSlugWarning(rowId.s))
                     /\ items' = items
                ELSE /\ items' = Append(items, [id |-> rowId.s, slug |-> slugValue.s,
                                                draft |-> FALSE,
                                                fieldData |-> FieldDataOf(row)])
                     /\ UNCHANGED <<skippedCount, warnings>>)
  /\ rowIdx' = rowIdx + 1
  /\ UNCHANGED <<inputs, pack, others, pc, colIdx, scanIdx, fields, lookupValueSets>>

\* the callback of the row loop
TransformRow ==
  /\ pc = "rows"
  /\ rowIdx < Len(rows)
  /\ LET row   == rows[rowIdx + 1]
         rowId == row.id
     IN  IF IsMissingRowId(rowId)
         THEN /\ skippedCount' = skippedCount + 1
              /\ warnings' = Append(warnings, MissingIdWarning(rowIdx))
              /\ items' = items
         ELSE With(extractSlugValue(Lookup(row.values, slugFieldId)), LAMBDA slugValue :
                IF ~Truthy(slugValue)
                THEN /\ skippedCount' = skippedCount + 1
                     /\ warnings' = Append(warnings, MissingSlugWarning(rowId.s))
                     /\ items' = items
                ELSE /\ items' = Append(items, [id |-> rowId.s, slug |-> slugValue.s,
                                                draft |-> FALSE,
                                                fieldData |-> FieldDataOf(row)])
                     /\ UNCHANGED <<skippedCount, warnings>>)
  /\ rowIdx' = rowIdx + 1
  /\ UNCHANGED <<inputs, pack, others, pc, colIdx, scanIdx, fields, lookupValueSets>>

\* the items written right after the mapping, the field list left as it was
Return_ThenItems ==
  /\ pc = "rows"
  /\ rowIdx = Len(rows)
  /\ pc' = IF caller = "none" THEN "done" ELSE "items"
  /\ UNCHANGED <<inputs, pack, others, colIdx, scanIdx, rowIdx, fields, lookupValueSets, warnings,
                 skippedCount, items>>

\* return { fields, items, warnings, skippedCount }
Return ==
  /\ pc = "rows"
  /\ rowIdx = Len(rows)
  /\ pc' = IF caller = "none" THEN "done" ELSE "existing"
  /\ UNCHANGED <<inputs, pack, others, colIdx, scanIdx, rowIdx, fields, lookupValueSets, warnings,
                 skippedCount, items>>

(***************************************************************************)
(* Inputs                                                                  *)
(***************************************************************************)
\* the longest column list and the longest row list of the generated batches
MaxCols == 3

MaxRows == 2

\* an object with one or two properties
Obj1(key, value) == Obj(key :> value)

Obj2(key1, value1, key2, value2) == Obj(key1 :> value1 @@ key2 :> value2)

Column(id, name, type, isArray, table, options) ==
  [id |-> id, name |-> name,
   format |-> [type |-> type, isArray |-> isArray, table |-> table, options |-> options]]

\* source type strings, in the letter cases a column list may carry, and two
\* that the dispatch table does not know
TypeNames ==
  {<<"t","e","x","t">>, <<"E","m","a","i","l">>, <<"p","h","o","n","e">>, <<"n","u","m","b","e","r">>, <<"c","u","r","r","e","n","c","y">>, <<"p","e","r","c","e","n","t">>, <<"d","u","r","a","t","i","o","n">>,
   <<"c","h","e","c","k","b","o","x">>, <<"d","a","t","e">>, <<"D","a","t","e","T","i","m","e">>, <<"t","i","m","e">>, <<"i","m","a","g","e">>, <<"f","i","l","e">>, <<"c","a","n","v","a","s">>,
   <<"r","i","c","h","t","e","x","t">>, <<"p","e","r","s","o","n">>, <<"l","o","o","k","u","p">>, <<"r","e","f","e","r","e","n","c","e">>, <<"u","r","l">>, <<"l","i","n","k">>, <<"s","e","l","e","c","t">>,
   <<"s","c","a","l","e">>, <<"b","u","t","t","o","n">>, <<"B","U","T","T","O","N">>, <<"s","l","i","d","e","r">>, <<>>}

\* [name, id] of a column: plain, with the heuristic words in either, and near misses
NameIds ==
  {<<<<"N","o","t","e","s">>, <<"c","2">>>>, <<<<"H","e","r","o"," ","I","m","a","g","e">>, <<"c","2">>>>, <<<<"G","R","A","P","H","I","C">>, <<"c","2">>>>,
   <<<<"N","o","t","e","s">>, <<"c","-","i","m","a","g","e","-","2">>>>, <<<<"N","o","t","e","s">>, <<"G","r","a","p","h","i","c","2">>>>, <<<<"I","m","a","g","i","n","e">>, <<"c","2">>>>}

PlainNameIds == {<<<<"N","o","t","e","s">>, <<"c","2">>>>, <<<<"H","e","r","o"," ","I","m","a","g","e">>, <<"c","2">>>>}

Tables ==
  {Undef, EmptyObj, Obj1(<<"i","d">>, Str(<<"t","b","l","A">>)), Obj1(<<"i","d">>, Str(<<"t","b","l","B">>)),
   Obj1(<<"i","d">>, Str(<<>>))}

Choices ==
  <<Obj2(<<"n","a","m","e">>, Str(<<"R","e","d">>), <<"i","d">>, Str(<<"o","p","t","1">>)), Obj1(<<"n","a","m","e">>, Str(<<"B","l","u","e">>)),
    Obj1(<<"n","a","m","e">>, Str(<<>>))>>

OptionShapes ==
  {Arr(Choices), Obj1(<<"c","h","o","i","c","e","s">>, Arr(Choices)), Arr(<<>>), EmptyObj}

\* the column that supplies the slug in the generated batches
SlugColumn == Column(<<"c","1">>, <<"T","i","t","l","e">>, <<"t","e","x","t">>, FALSE, Undef, Undef)

TypeColumns ==
  {Column(ni[2], ni[1], type, FALSE, Undef, Undef) : type \in TypeNames, ni \in NameIds}

LookupColumns ==
  {Column(ni[2], ni[1], type, isArray, table, Undef) :
     type \in {<<"l","o","o","k","u","p">>, <<"L","o","o","k","u","p">>}, isArray \in BOOLEAN, table \in Tables,
     ni \in PlainNameIds}

OptionColumns ==
  {Column(ni[2], ni[1], type, isArray, Undef, options) :
     type \in {<<"s","e","l","e","c","t">>, <<"S","c","a","l","e">>, <<"b","u","t","t","o","n">>, <<"t","e","x","t">>}, isArray \in BOOLEAN,
     options \in OptionShapes, ni \in PlainNameIds}

ImageUrl == <<"h","t","t","p","s",":","/","/","a",".","i","o","/","p",".","p","n","g">>

\* raw cell values of every shape the Value Transformer distinguishes
RawValues ==
  {Null, Str(<<>>), Str(<<" "," ">>), Str(<<"H","e","l","l","o">>), Str(<<"$","1",",","2","0","0",".","5","0">>), Str(<<"2","5","%">>),
   Str(ImageUrl), Str(<<"1","3",":","0","5">>), Str(<<"2","0","2","4","-","0","3","-","0","1">>), Str(<<"2","0","2","4","-","0","3","-","0","1","T","2","3",":","3","0",":","0","0","Z">>),
   Str(Fence \o <<"R","e","d">> \o Fence),
   Num(5), Num(0), Bool(TRUE), Bool(FALSE),
   Obj1(<<"n","a","m","e">>, Str(<<"R","e","d">>)), Obj1(<<"v","a","l","u","e">>, Str(<<"H","e","l","l","o">>)), Obj1(<<"v","a","l","u","e">>, Num(7)),
   Obj1(<<"f","o","o">>, Num(1)), EmptyObj, Obj1(<<"i","d">>, Str(<<"i","1">>)),
   Obj2(<<"@","t","y","p","e">>, Str(<<"M","o","n","e","t","a","r","y","A","m","o","u","n","t">>), <<"a","m","o","u","n","t">>, Num(12)),
   Obj1(<<"@","t","y","p","e">>, Str(<<"M","o","n","e","t","a","r","y","A","m","o","u","n","t">>)),
   Obj2(<<"@","t","y","p","e">>, Str(<<"I","m","a","g","e","O","b","j","e","c","t">>), <<"u","r","l">>, Str(ImageUrl)),
   Obj1(<<"u","r","l">>, Str(ImageUrl)), Obj(<<"@","t","y","p","e">> :> Str(<<"I","m","a","g","e","O","b","j","e","c","t">>) @@ <<"u","r","l">> :> Str(<<"n","o","p","e">>) @@ <<"c","o","n","t","e","n","t","U","r","l">> :> Str(ImageUrl)),
   Obj2(<<"u","r","l">>, Str(ImageUrl), <<"l","i","n","k","e","d","R","o","w">>, Obj1(<<"u","r","l">>, Str(<<"n","o","p","e">>))),
   Obj1(<<"r","a","w","V","a","l","u","e">>, Str(<<"H","e","l","l","o">>)),
   Obj2(<<"d","i","s","p","l","a","y","V","a","l","u","e">>, Str(<<"S","h","o","w","n">>), <<"n","a","m","e">>, Str(<<"R","e","d">>)),
   Obj1(<<"r","a","w","V","a","l","u","e">>, Arr(<<Str(<<"a">>), Str(<<"b">>)>>)),
   Arr(<<>>), Arr(<<Str(<<"R","e","d">>)>>), Arr(<<Obj1(<<"n","a","m","e">>, Str(<<"R","e","d">>)), Str(<<"B","l","u","e">>)>>),
   Arr(<<Obj1(<<"i","d">>, Str(<<"i","1">>))>>)}

\* a few cells for the batches that vary the column shape
FewValues == {Null, Str(<<"H","e","l","l","o">>), Arr(<<Obj1(<<"i","d">>, Str(<<"i","1">>)), Str(<<"i","2">>)>>)}

\* reference map entry lists: none, one table, and a list with an entry that lacks
\* its collection id and a duplicate table id
ReferenceEntryLists ==
  {<<>>,
   <<Obj2(<<"c","o","d","a","T","a","b","l","e","I","d">>, Str(<<"t","b","l","A">>), <<"f","r","a","m","e","r","C","o","l","l","e","c","t","i","o","n","I","d">>, Str(<<"c","o","l","A">>))>>,
   <<Obj2(<<"c","o","d","a","T","a","b","l","e","I","d">>, Str(<<"t","b","l","A">>), <<"f","r","a","m","e","r","C","o","l","l","e","c","t","i","o","n","I","d">>, Str(<<"c","o","l","X">>)),
     Obj1(<<"c","o","d","a","T","a","b","l","e","I","d">>, Str(<<"t","b","l","B">>)),
     Obj2(<<"c","o","d","a","T","a","b","l","e","I","d">>, Str(<<"t","b","l","A">>), <<"f","r","a","m","e","r","C","o","l","l","e","c","t","i","o","n","I","d">>, Str(<<"c","o","l","A">>))>>}

\* a raw row { id, values }
RowOf(id, values) == Obj2(<<"i","d">>, id, <<"v","a","l","u","e","s">>, Obj(values))

\* the state on entry to buildFieldsAndItems
Start(cols, rawRows, slugId, entries, twelve, tz) ==
  /\ columns = cols
  /\ rows = normalizeRows(rawRows)
  /\ slugFieldId = slugId
  /\ referenceMap = buildReferenceMap(entries)
  /\ use12HourTime = twelve
  /\ hostOffset = tz
  /\ pc = "fields"
  /\ colIdx = 0
  /\ scanIdx = 0
  /\ rowIdx = 0
  /\ fields = <<>>
  /\ lookupValueSets = [id \in {} |-> <<>>]
  /\ warnings = <<>>
  /\ skippedCount = 0
  /\ items = <<>>
  /\ caller = "none"
  /\ params = Null
  /\ remote = <<>>
  /\ calls = <<>>
  /\ collection = Null
  /\ existingFields = <<>>
  /\ mergedFields = <<>>
  /\ compatibleFields = <<>>
  /\ fieldsSet = 0
  /\ returned = Null
  /\ changedPaths = Undef
  /\ publishResult = Null
  /\ invocations = <<>>
  /\ round = 1
  /\ firstPush = Null

\* one column of every shape beside the slug column, one row, every cell shape
InitTypes ==
  \E column \in TypeColumns, cell \in RawValues \cup {Undef} :
    Start(<<SlugColumn, column>>,
          <<RowOf(Str(<<"r","1">>),
                  IF cell = Undef THEN <<"c","1">> :> Str(<<"H","e","l","l","o">>)
                  ELSE <<"c","1">> :> Str(<<"H","e","l","l","o">>) @@ column.id :> cell)>>,
          <<"c","1">>, <<>>, FALSE, 0)

InitShapes ==
  \E column \in LookupColumns \cup OptionColumns, cell \in FewValues,
     entries \in ReferenceEntryLists :
    Start(<<SlugColumn, column>>,
          <<RowOf(Str(<<"r","1">>), <<"c","1">> :> Str(<<"H","e","l","l","o">>) @@ column.id :> cell)>>,
          <<"c","1">>, entries, FALSE, 0)

\* [name, type, isArray, table] of the columns of the generated column lists
ListedColumns ==
  {<<<<"T","i","t","l","e">>, <<"t","e","x","t">>, FALSE, Undef>>,
   <<<<"G","o"," ","i","m","a","g","e">>, <<"B","u","t","t","o","n">>, FALSE, Undef>>,
   <<<<"T","a","g","s">>, <<"l","o","o","k","u","p">>, TRUE, Obj1(<<"i","d">>, Str(<<"t","b","l","A">>))>>,
   <<<<"R","e","f","s">>, <<"l","o","o","k","u","p">>, TRUE, Obj1(<<"i","d">>, Str(<<"t","b","l","B">>))>>,
   <<<<"C","o","l","o","r">>, <<"l","o","o","k","u","p">>, FALSE, Undef>>,
   <<<<"C","o","v","e","r"," ","i","m","a","g","e">>, <<"t","e","x","t">>, FALSE, Undef>>}

ColumnId(i) == <<"c">> \o NatToStr(i)

RowId(i) == <<"r">> \o NatToStr(i)

\* column lists of every length up to MaxCols, the ids following the position
InitLists ==
  \E n \in 1..MaxCols : \E shape \in [1..n -> ListedColumns] :
    \E entries \in ReferenceEntryLists :
      Start([i \in 1..n |->
               Column(ColumnId(i), shape[i][1], shape[i][2], shape[i][3], shape[i][4],
                      Undef)],
            <<RowOf(Str(<<"r","1">>), [id \in {ColumnId(i) : i \in 1..n} |-> Str(<<"R","e","d">>)])>>,
            <<"c","1">>, entries, FALSE, 0)

PriceColumn == Column(<<"c","2">>, <<"P","r","i","c","e">>, <<"n","u","m","b","e","r">>, FALSE, Undef, Undef)

GoodValues == <<"c","1">> :> Str(<<"H","e","l","l","o">>) @@ <<"c","2">> :> Num(5)

\* raw rows that differ in how they carry their id
IdRows ==
  {RowOf(Str(<<"r","1">>), GoodValues),
   RowOf(Str(<<>>), GoodValues),
   Obj1(<<"v","a","l","u","e","s">>, Obj(GoodValues)),
   Obj2(<<"_","i","d">>, Obj1(<<"v","a","l","u","e">>, Str(<<"r","2">>)), <<"v","a","l","u","e","s">>, Obj(GoodValues)),
   Obj2(<<"_","i","d">>, Obj1(<<"v","a","l","u","e">>, Null), <<"v","a","l","u","e","s">>, Obj(GoodValues)),
   RowOf(Num(7), GoodValues),
   Obj(<<"i","d">> :> Str(<<"r","3">>) @@ GoodValues),
   Null}

\* slug cells: blank, unresolvable and resolvable ones; Undef stands for no cell
SlugCells ==
  {Undef, Null, Str(<<" "," ">>), Str(<<Backquote, Backquote>>), Str(<<"[","H","i","]","(","h","t","t","p",":","/","/","x",")">>),
   Num(5), Obj1(<<"v","a","l","u","e">>, Str(<<" "," ">>)), Obj1(<<"n","a","m","e">>, Str(<<"H","i">>)),
   Obj1(<<"f","o","o">>, Num(1)), Arr(<<>>), Arr(<<Str(<<"a">>), Str(<<"b">>)>>)}

SlugRows ==
  {RowOf(Str(<<"r","4">>),
         IF cell = Undef THEN <<"c","2">> :> Num(5)
         ELSE <<"c","1">> :> cell @@ <<"c","2">> :> Num(5)) : cell \in SlugCells}

\* batches of up to MaxRows rows with every id shape and slug cell at every position
\* an array lookup column whose table no reference map entry names
RefsColumn ==
  Column(<<"c","2">>, <<"R","e","f","s">>, <<"l","o","o","k","u","p">>, TRUE, Obj1(<<"i","d">>, Str(<<"t","b","l","B">>)), Undef)

InitRows ==
  \E n \in 0..MaxRows : \E rawRows \in [1..n -> IdRows \cup SlugRows] :
  \E second \in {PriceColumn, RefsColumn} :
    Start(<<SlugColumn, second>>, rawRows, <<"c","1">>, <<>>, FALSE, 0)

\* cells of a scalar lookup column; Undef stands for no cell
LookupCells ==
  {Undef, Null, Str(<<"R","e","d">>), Str(<<" ","R","e","d"," ">>), Str(Fence \o <<"R","e","d">> \o Fence),
   Str(<<"B","l","u","e">>), Str(Fence \o Fence), Num(0),
   Obj1(<<"n","a","m","e">>, Str(<<"R","e","d">>)), Obj1(<<"v","a","l","u","e">>, Str(<<"B","l","u","e">>)),
   Obj2(<<"i","d">>, Str(<<"i","1">>), <<"v","a","l","u","e">>, Str(<<"R","e","d">>)),
   Arr(<<Str(<<"R","e","d">>), Str(<<"B","l","u","e">>)>>),
   Arr(<<Obj1(<<"n","a","m","e">>, Str(<<"B","l","u","e">>)), Str(<<"R","e","d">>)>>)}

\* [cell of c2, cell of c3] of the rows of the lookup batches
LookupRowCells ==
  {<<cell, Undef>> : cell \in LookupCells}
    \cup {<<Str(<<"R","e","d">>), Str(<<"S">>)>>, <<Undef, Obj1(<<"n","a","m","e">>, Str(<<" ","M"," ">>))>>}

LookupRow(i, cells) ==
  LET keys == {<<"c","1">>} \cup (IF cells[1] = Undef THEN {} ELSE {<<"c","2">>})
                            \cup (IF cells[2] = Undef THEN {} ELSE {<<"c","3">>})
  IN  RowOf(Str(RowId(i)),
            [id \in keys |->
               IF id = <<"c","1">> THEN Str(<<"H","e","l","l","o">>)
               ELSE IF id = <<"c","2">> THEN cells[1] ELSE cells[2]])

\* two scalar lookup columns and up to MaxRows rows of lookup cells
InitLookups ==
  \E n \in 1..MaxRows : \E cells \in [1..n -> LookupRowCells] :
    Start(<<SlugColumn,
            Column(<<"c","2">>, <<"C","o","l","o","r">>, <<"l","o","o","k","u","p">>, FALSE, Undef, Undef),
            Column(<<"c","3">>, <<"S","i","z","e">>, <<"L","o","o","k","u","p">>, FALSE, Obj1(<<"i","d">>, Str(<<"t","b","l","A">>)), Undef)>>,
          [i \in 1..n |-> LookupRow(i, cells[i])],
          <<"c","1">>, <<>>, FALSE, 0)

HostOffsets == {0 - 300, 0, 330}

DateCells ==
  {Str(<<"2","0","2","4","-","0","3","-","0","1">>), Str(<<"2","0","2","4","-","0","3","-","0","1","T","2","3",":","3","0",":","0","0","Z">>), Str(<<"2","0","2","4","-","0","3","-","0","1","T","0","1",":","1","5",":","0","0">>),
   Str(<<"1","3",":","0","5">>), Str(<<"0","0",":","0","7",":","0","9">>), Str(<<"s","o","o","n">>), Str(<<"0","9","9","9","-","1","2","-","3","1">>),
   Obj1(<<"v","a","l","u","e">>, Str(<<"2","0","2","4","-","0","3","-","0","1">>))}

\* date, datetime and time columns under every host offset and both clock styles
InitDates ==
  \E type \in {<<"d","a","t","e">>, <<"d","a","t","e","t","i","m","e">>, <<"t","i","m","e">>}, cell \in DateCells,
     tz \in HostOffsets, twelve \in BOOLEAN :
    Start(<<SlugColumn, Column(<<"c","2">>, <<"W","h","e","n">>, type, FALSE, Undef, Undef)>>,
          <<RowOf(Str(<<"r","1">>), <<"c","1">> :> Str(<<"H","e","l","l","o">>) @@ <<"c","2">> :> cell)>>,
          <<"c","1">>, <<>>, twelve, tz)

\* raw columns as a JSON array may hold them: well formed, without a name,
\* without a format, with a format that has no type or a type that is no
\* string, and select columns whose choices are an array, a string, an object
RawColumns ==
  LET Raw(name, format) ==
        Obj(<<"i","d">> :> Str(<<"c","2">>) @@ <<"n","a","m","e">> :> name
            @@ <<"f","o","r","m","a","t">> :> format)
      Select(options) ==
        Obj(<<"t","y","p","e">> :> Str(<<"s","e","l","e","c","t">>)
            @@ <<"o","p","t","i","o","n","s">> :> options)
  IN  {Raw(Str(<<"K","i","n","d">>), Obj1(<<"t","y","p","e">>, Str(<<"N","u","m","b","e","r">>))),
       Raw(Undef, Obj1(<<"t","y","p","e">>, Str(<<"t","e","x","t">>))),
       Raw(Str(<<"K","i","n","d">>), Undef),
       Raw(Str(<<"K","i","n","d">>), Null),
       Raw(Str(<<"K","i","n","d">>), EmptyObj),
       Raw(Str(<<"K","i","n","d">>), Obj1(<<"t","y","p","e">>, Num(5))),
       Raw(Str(<<"K","i","n","d">>), Select(Obj1(<<"c","h","o","i","c","e","s">>, Arr(Choices)))),
       Raw(Str(<<"K","i","n","d">>), Select(Obj1(<<"c","h","o","i","c","e","s">>, Str(<<"R","e","d",",","B","l","u","e">>)))),
       Raw(Str(<<"K","i","n","d">>), Select(Obj1(<<"c","h","o","i","c","e","s">>, EmptyObj))),
       Raw(Str(<<"K","i","n","d">>), Select(Obj1(<<"c","h","o","i","c","e","s">>, Arr(<<Null>>)))),
       Raw(Str(<<"H","e","r","o"," ","i","m","a","g","e">>), Select(Obj1(<<"c","h","o","i","c","e","s">>, EmptyObj))),
       Num(7)}

\* columns as normalizeColumns returns them, rows as normalizeRows does
InitNormalized ==
  \E raw \in RawColumns : \E first \in BOOLEAN : \E value \in FewValues \cup {Undef} :
    Start(normalizeColumns(
            IF first
            THEN <<raw, Obj(<<"i","d">> :> Str(<<"c","1">>) @@ <<"n","a","m","e">> :> Str(<<"T","i","t","l","e">>))>>
            ELSE <<Obj(<<"i","d">> :> Str(<<"c","1">>) @@ <<"n","a","m","e">> :> Str(<<"T","i","t","l","e">>)), raw>>),
          <<RowOf(Str(<<"r","1">>), <<"c","1">> :> Str(<<"H","e","l","l","o">>) @@ <<"c","2">> :> value),
            value>>,
          <<"c","1">>, <<>>, FALSE, 0)

Init ==
  InitTypes \/ InitShapes \/ InitLists \/ InitRows \/ InitLookups \/ InitDates
    \/ InitNormalized

Next == MapColumn \/ StartScan \/ ScanRow \/ AssignCases \/ TransformRow \/ Return

Spec == Init /\ [][Next]_vars

(***************************************************************************)
(* Properties of the Batch Assembler                                       *)
(***************************************************************************)
\* the step that handles rows[rowIdx + 1] in the row loop
RowStep == pc = "rows" /\ rowIdx < Len(rows) /\ rowIdx' = rowIdx + 1

\* the row the next row step handles
CurrentRow == rows[rowIdx + 1]

\* C1: a row whose resolved id is absent or the empty string produces no item
\* and raises skippedCount by exactly one, wherever it stands in the batch.
C1_MissingIdSkipped ==
  [][(RowStep /\ (CurrentRow.id = Undef \/ CurrentRow.id = Str(<<>>)))
       => (items' = items /\ skippedCount' = skippedCount + 1)]_vars

\* both rows of a batch skipped, one without an id and one with an empty id
C1_Witness ==
  /\ pc = "done"
  /\ Len(rows) = 2
  /\ rows[1].id = Str(<<>>)
  /\ rows[2].id = Undef
  /\ Truthy(extractSlugValue(Lookup(rows[1].values, slugFieldId)))
  /\ skippedCount = 2
  /\ items = <<>>

\* the slug-field cell of the row the next row step handles (Undef: no cell)
SlugCell == Lookup(CurrentRow.values, slugFieldId)

\* wrapper keys a text label is read from
WrapperKeys ==
  {<<"r","a","w","V","a","l","u","e">>, <<"v","a","l","u","e">>, <<"d","i","s","p","l","a","y","V","a","l","u","e">>, <<"n","a","m","e">>, <<"c","o","n","t","e","n","t">>, <<"u","r","l">>}

\* a slug cell with no text label: absent, null, blank or whitespace-only, a
\* number, or an object with none of the wrapper keys
NoSlugLabel(cell) ==
  \/ cell = Undef
  \/ cell = Null
  \/ IsString(cell) /\ Trim(cell.s) = <<>>
  \/ IsNumber(cell)
  \/ cell.k = "obj" /\ (DOMAIN cell.f) \cap WrapperKeys = {}

\* C2: a row with a non-empty id whose slug cell is absent, blank,
\* whitespace-only or unresolvable produces no item and appends a warning that
\* contains the row id; no item ever has an empty slug.
C2_UnresolvableSlugSkipped ==
  /\ [][(RowStep /\ Truthy(CurrentRow.id) /\ NoSlugLabel(SlugCell))
          => /\ items' = items
             /\ Len(warnings') = Len(warnings) + 1
             /\ Includes(warnings'[Len(warnings')], CurrentRow.id.s)]_vars
  /\ [](\A i \in DOMAIN items : items[i].slug # <<>>)

\* the item a row step appends
NewItem == items'[Len(items')]

\* a row step that keeps its row
KeepStep == RowStep /\ Len(items') = Len(items) + 1

\* the empty value of a field type: "", 0, false or []
EmptyValueOf(type) ==
  CASE type = "number"                   -> Num(0)
    [] type = "boolean"                  -> Bool(FALSE)
    [] type = "multiCollectionReference" -> Arr(<<>>)
    [] OTHER                             -> Str(<<>>)

\* a cell that is null, undefined, blank, or has no key in the row's values
NoValue(row, fieldId) ==
  LET cell == Lookup(row.values, fieldId)
  IN  cell = Undef \/ cell = Null \/ (IsString(cell) /\ Trim(cell.s) = <<>>)

\* C3: every item has, for every field whose type is not date, an entry under
\* the field's id; when the row's cell is null, undefined, blank or has no key
\* in the row's values, that entry is the empty value of the field's type.
C3_EveryFieldKeyPresent ==
  [][KeepStep =>
       \A i \in DOMAIN fields :
         fields[i].type # "date" =>
           /\ fields[i].id \in DOMAIN NewItem.fieldData
           /\ NoValue(CurrentRow, fields[i].id) =>
                NewItem.fieldData[fields[i].id]
                  = [type |-> fields[i].type, value |-> EmptyValueOf(fields[i].type)]]_vars

\* C4: in every item, the entry under key k carries the type of the field
\* whose id is k, for every field type and every shape of raw value.
C4_EntryTypeMatchesField ==
  \A i \in DOMAIN items : \A k \in DOMAIN items[i].fieldData :
    /\ \E j \in DOMAIN fields : fields[j].id = k
    /\ \A j \in DOMAIN fields :
         fields[j].id = k => items[i].fieldData[k].type = fields[j].type

\* a finished batch whose item carries an image entry made from a wrapper
\* object and a string entry, beside a field of another type
C4_Witness ==
  /\ pc = "done"
  /\ Len(items) = 1
  /\ \E k \in DOMAIN items[1].fieldData :
       /\ items[1].fieldData[k].type = "image"
       /\ rows[1].values[k].k = "obj"
  /\ \E k \in DOMAIN items[1].fieldData : items[1].fieldData[k].type = "string"

\* the columns that are not buttons, among the first n, in column order
NonButtonColumns(n) ==
  SelectSeq(SubSeq(columns, 1, n),
            LAMBDA column : ToLower(column.format.type) # <<"b","u","t","t","o","n">>)

\* C5: the field list is the sequence of the non-button columns in column
\* order, each field's id equal to its column's id; a button column, in any
\* letter case and whatever its name, yields no field.
C5_FieldsAreNonButtonColumns ==
  /\ Len(fields) = Len(NonButtonColumns(colIdx))
  /\ \A i \in DOMAIN fields : fields[i].id = NonButtonColumns(colIdx)[i].id
  /\ pc \notin {"fields", "threw"} => colIdx = Len(columns)

\* a finished batch of three columns whose middle one is a button, written
\* Button and named after an image
C5_Witness ==
  /\ pc = "done"
  /\ Len(columns) = 3
  /\ columns[2].format.type = <<"B","u","t","t","o","n">>
  /\ Includes(ToLower(columns[2].name), <<"i","m","a","g","e">>)
  /\ Len(fields) = 2
  /\ fields[1].id = columns[1].id
  /\ fields[2].id = columns[3].id

\* the name or the id contains "image" or "graphic", in any letter case
ImageNamed(column) ==
  \E word \in {<<"i","m","a","g","e">>, <<"g","r","a","p","h","i","c">>} :
    Includes(ToLower(column.name), word) \/ Includes(ToLower(column.id), word)

\* C6: every mapped non-button column whose name or id contains "image" or
\* "graphic" has a field of type image, whatever its declared type, also with
\* a declared choice list and for lookup columns with or without a reference.
C6_ImageNamedColumnsAreImages ==
  \A i \in 1..colIdx :
    (ToLower(columns[i].format.type) # <<"b","u","t","t","o","n">> /\ ImageNamed(columns[i]))
      => \E j \in DOMAIN fields :
           /\ fields[j].id = columns[i].id
           /\ fields[j].type = "image"
           /\ DOMAIN fields[j] = {"id", "name", "type"}

\* a finished batch with an array lookup column named after an image whose
\* table is in the reference map
C6_Witness ==
  /\ pc = "done"
  /\ \E i \in DOMAIN columns :
       /\ ToLower(columns[i].format.type) = <<"l","o","o","k","u","p">>
       /\ columns[i].format.isArray
       /\ Get(columns[i].format.table, <<"i","d">>) = Str(<<"t","b","l","A">>)
       /\ <<"t","b","l","A">> \in DOMAIN referenceMap
       /\ ImageNamed(columns[i])
       /\ FieldOf(columns[i].id).type = "image"

\* the step that maps columns[colIdx + 1]
ColumnStep == pc = "fields" /\ colIdx < Len(columns) /\ colIdx' = colIdx + 1

\* the column the next column step maps
CurrentColumn == columns[colIdx + 1]

\* an array lookup column that the Type Mapper maps to string
ArrayLookupAsString(column) ==
  /\ ToLower(column.format.type) = <<"l","o","o","k","u","p">>
  /\ column.format.isArray
  /\ mapCodaTypeToFramerType(column) = [id |-> column.id, name |-> column.name, type |-> "string"]

\* format.table.id, Undef when the table or its id is absent
TableIdOf(column) == Get(column.format.table, <<"i","d">>)

StringFieldOf(column) == [id |-> column.id, name |-> column.name, type |-> "string"]

ReferenceFieldOf(column, collectionId) ==
  [id |-> column.id, name |-> column.name, type |-> "multiCollectionReference",
   collectionId |-> collectionId]

\* No Framer collection mapping found for lookup field "<name>" (Coda table <tableId>).
ExpectedWarning(column) ==
  <<"N","o"," ","F","r","a","m","e","r"," ","c","o","l","l","e","c","t","i","o","n"," ","m","a","p","p","i","n","g"," ","f","o","u","n","d"," ","f","o","r"," ","l","o","o","k","u","p"," ","f","i","e","l","d"," ","\"">> \o column.name
    \o <<"\""," ","(","C","o","d","a"," ","t","a","b","l","e"," ">> \o TableIdOf(column).s \o <<")",".">>

\* the three outcomes of mapping an array lookup column; present says when
\* the table id counts as present
LookupOutcome(column, present) ==
  IF present /\ TableIdOf(column).s \in DOMAIN referenceMap
  THEN /\ fields' = Append(fields, ReferenceFieldOf(column, referenceMap[TableIdOf(column).s]))
       /\ warnings' = warnings
  ELSE IF present
  THEN /\ fields' = Append(fields, StringFieldOf(column))
       /\ warnings' = Append(warnings, ExpectedWarning(column))
  ELSE /\ fields' = Append(fields, StringFieldOf(column))
       /\ warnings' = warnings

\* C7 as stated: for an array lookup column mapped to string, a table id that
\* is present and in the reference map gives a multiCollectionReference field
\* with the mapped collection id and no warning; one that is present but not
\* in the map gives a string field and exactly the one warning; an absent one
\* gives a string field and no warning.
C7_PresentTableId ==
  [][(ColumnStep /\ ArrayLookupAsString(CurrentColumn))
       => LookupOutcome(CurrentColumn, TableIdOf(CurrentColumn) # Undef)]_vars

\* C7, amended: the same three outcomes with "present" read as "a non-empty
\* string"; an empty table id counts as absent (string field, no warning).
C7_NonEmptyTableId ==
  [][(ColumnStep /\ ArrayLookupAsString(CurrentColumn))
       => LookupOutcome(CurrentColumn,
                        IsString(TableIdOf(CurrentColumn))
                          /\ TableIdOf(CurrentColumn).s # <<>>)]_vars

\* a finished batch with one array lookup column resolved through the map and
\* one whose table is not in the map, which left the only warning
C7_Witness ==
  /\ pc = "done"
  /\ \E i, j \in DOMAIN columns :
       /\ ArrayLookupAsString(columns[i])
       /\ ArrayLookupAsString(columns[j])
       /\ TableIdOf(columns[i]) = Str(<<"t","b","l","A">>)
       /\ FieldOf(columns[i].id) = ReferenceFieldOf(columns[i], <<"c","o","l","A">>)
       /\ TableIdOf(columns[j]) = Str(<<"t","b","l","B">>)
       /\ FieldOf(columns[j].id) = StringFieldOf(columns[j])
       /\ warnings = <<ExpectedWarning(columns[j])>>

\* an enum field derived from a lookup column
LookupEnumField(field) ==
  /\ field.type = "enum"
  /\ \E i \in DOMAIN columns :
       columns[i].id = field.id /\ ToLower(columns[i].format.type) = <<"l","o","o","k","u","p">>

\* the fence-stripped, trimmed labels of the cells of one field, rows 1..n in
\* row order, repeats and empty labels included
RECURSIVE LabelsOfRows(_, _)
LabelsOfRows(fieldId, n) ==
  IF n = 0 THEN <<>>
  ELSE LET cell  == Lookup(rows[n].values, fieldId)
           found == IF Truthy(cell) THEN extractLookupValues(cell) ELSE <<>>
       IN  LabelsOfRows(fieldId, n - 1)
             \o [i \in DOMAIN found |-> Trim(StripFences(found[i]))]

\* the distinct non-empty members of a sequence, in order of first appearance
RECURSIVE FirstAppearances(_)
FirstAppearances(labels) ==
  IF labels = <<>> THEN <<>>
  ELSE LET front == SubSeq(labels, 1, Len(labels) - 1)
           last  == labels[Len(labels)]
       IN  IF last = <<>> \/ (\E i \in DOMAIN front : front[i] = last)
           THEN FirstAppearances(front)
           ELSE Append(FirstAppearances(front), last)

\* the case list the rows determine for a field
ExpectedCases(fieldId) ==
  LET labels == FirstAppearances(LabelsOfRows(fieldId, Len(rows)))
  IN  [n \in DOMAIN labels |-> [id |-> labels[n], name |-> labels[n]]]

\* C8: no row is transformed until the scan has visited every row for every
\* lookup-derived enum field and each such field has its final case list; no
\* field, and so no case list, changes once a row has been transformed.
C8_ScanBeforeTransform ==
  [][/\ rowIdx' # rowIdx =>
          \A j \in DOMAIN fields :
            LookupEnumField(fields[j]) =>
              /\ scanIdx = Len(rows)
              /\ fields[j].cases = ExpectedCases(fields[j].id)
              /\ fields'[j].cases = fields[j].cases
     /\ rowIdx > 0 => fields' = fields]_vars

\* a finished batch of two kept rows whose lookup field got two cases
C8_Witness ==
  /\ pc = "done"
  /\ Len(rows) = 2
  /\ Len(items) = 2
  /\ scanIdx = 2
  /\ \E j \in DOMAIN fields :
       LookupEnumField(fields[j]) /\ Len(fields[j].cases) = 2

\* C9: the final case list of an enum field derived from a scalar lookup
\* column is the distinct, non-empty, fence-stripped and trimmed labels of all
\* rows in order of first appearance, each case with id = name = label and no
\* id twice; being a function of the input, it is the same on every run.
C9_CasesAreFirstAppearances ==
  pc \in {"rows", "done"} =>
    \A j \in DOMAIN fields :
      LookupEnumField(fields[j]) =>
        /\ fields[j].cases = ExpectedCases(fields[j].id)
        /\ \A a, b \in DOMAIN fields[j].cases :
             /\ fields[j].cases[a].id = fields[j].cases[a].name
             /\ fields[j].cases[a].id # <<>>
             /\ a # b => fields[j].cases[a].id # fields[j].cases[b].id

\* a finished batch where a padded label, then an array repeating it before a
\* new label, gave the cases Red, Blue
C9_Witness ==
  /\ pc = "done"
  /\ Len(rows) = 2
  /\ Lookup(rows[1].values, <<"c","2">>) = Str(<<" ","R","e","d"," ">>)
  /\ Lookup(rows[2].values, <<"c","2">>) = Arr(<<Str(<<"R","e","d">>), Str(<<"B","l","u","e">>)>>)
  /\ FieldOf(<<"c","2">>).cases
       = <<[id |-> <<"R","e","d">>, name |-> <<"R","e","d">>], [id |-> <<"B","l","u","e">>, name |-> <<"B","l","u","e">>]>>

\* the non-empty labels the scan takes from the cell of a row
ContributedLabels(row, fieldId) ==
  LET cell  == Lookup(row.values, fieldId)
      found == IF Truthy(cell) THEN extractLookupValues(cell) ELSE <<>>
  IN  {Trim(StripFences(found[i])) : i \in DOMAIN found} \ {<<>>}

\* C10: for every enum field derived from a scalar lookup column and every
\* kept row whose cell contributes at least one label to the field's domain,
\* the row's fieldData has an enum entry for the field whose value is the id
\* of one of the field's cases.
C10_ContributingRowsResolve ==
  [][KeepStep =>
       \A j \in DOMAIN fields :
         (LookupEnumField(fields[j]) /\ ContributedLabels(CurrentRow, fields[j].id) # {})
           => /\ fields[j].id \in DOMAIN NewItem.fieldData
              /\ NewItem.fieldData[fields[j].id].type = "enum"
              /\ \E n \in DOMAIN fields[j].cases :
                   NewItem.fieldData[fields[j].id].value = Str(fields[j].cases[n].id)]_vars

(***************************************************************************)
(* The pack: PushRowToCollection and PushTableToCollection                 *)
(***************************************************************************)
\* a JSON parameter as the action receives it: left out (undefined or ""), a
\* text JSON.parse accepts, with the value it yields, or a text JSON.parse
\* rejects, with the message of its SyntaxError
NoText == [k |-> "absent"]

JsonText(value) == [k |-> "json", value |-> value]

BadText(message) == [k |-> "bad", message |-> message]

\* what a call yields: a value, or the error it throws
Returns(value) == [threw |-> FALSE, value |-> value]

UserVisibleError(message) == [threw |-> TRUE, userVisible |-> TRUE, error |-> message]

TypeError(message) == [threw |-> TRUE, userVisible |-> FALSE, error |-> message]

parseJsonParam(raw, label) ==
  IF raw.k = "json" THEN Returns(raw.value)
  ELSE UserVisibleError(<<"I","n","v","a","l","i","d"," ">> \o label \o <<" ","J","S","O","N",":"," ">>
                        \o (IF raw.k = "bad" THEN raw.message ELSE <<"U","n","e","x","p","e","c","t","e","d"," ","e","n","d"," ","o","f"," ","J","S","O","N"," ","i","n","p","u","t">>)
                        \o <<"."," ","P","l","e","a","s","e"," ","p","r","o","v","i","d","e"," ","v","a","l","i","d"," ","J","S","O","N",".">>)

parseJsonArray(raw, label) ==
  LET value == parseJsonParam(raw, label)
  IN  IF value.threw THEN value
      ELSE IF ~IsArray(value.value)
      THEN UserVisibleError(label \o <<" ","m","u","s","t"," ","b","e"," ","a"," ","J","S","O","N"," ","a","r","r","a","y",".">>)
      ELSE Returns(value.value.a)

\* a call on the Framer client
Call(op, arg) == [op |-> op, arg |-> arg]

\* the search that finds no collection
FindByName_NeverFinds(collections, name) == 0

\* collections.find(...): the position of the first match, 0 for undefined
FindByName(collections, name) ==
  IF \E i \in DOMAIN collections : collections[i].name = name
  THEN CHOOSE i \in DOMAIN collections :
         /\ collections[i].name = name
         /\ \A j \in 1..(i - 1) : collections[j].name # name
  ELSE 0

FindById(collections, id) ==
  IF \E i \in DOMAIN collections : collections[i].id = id
  THEN CHOOSE i \in DOMAIN collections :
         /\ collections[i].id = id
         /\ \A j \in 1..(i - 1) : collections[j].id # id
  ELSE 0

\* the id the project gives to the collection it creates
CreatedId(collections) == <<"c","o","l">> \o NatToStr(Len(collections) + 1)

\* the merge that leaves the local name in place
mergeFieldsWithExistingFields_KeepsLocalName(sourceFields, existing) == sourceFields

mergeFieldsWithExistingFields(sourceFields, existing) ==
  [i \in DOMAIN sourceFields |->
     LET sourceField == sourceFields[i]
         hits == {j \in DOMAIN existing : existing[j].id = sourceField.id}
     IN  IF hits # {}
         THEN [sourceField EXCEPT
                 !.name = existing[CHOOSE j \in hits : \A h \in hits : h <= j].name]
         ELSE sourceField]

\* the filter that drops every multiCollectionReference field
CompatibleFields_NoReferences(fieldList) ==
  SelectSeq(fieldList, LAMBDA field : field.type # "multiCollectionReference")

\* the filter that drops every reference field, resolved or not
CompatibleFields_PlainOnly(fieldList) ==
  SelectSeq(fieldList, LAMBDA field :
    field.type \notin {"multiCollectionReference", "collectionReference"})

\* fields.map(...).filter(Boolean) of setCollectionFields; a collectionId the
\* model holds is a string
CompatibleFields(fieldList) ==
  SelectSeq(fieldList, LAMBDA field :
    ~(field.type = "multiCollectionReference" /\ "collectionId" \notin DOMAIN field))

\* the three JSON parameters parsed and normalised, in the order execute
\* evaluates them; the first error thrown is the outcome
ParsedParams ==
  LET parsedColumns == parseJsonArray(params.columnsJson, <<"c","o","l","u","m","n","s">>)
      parsedRow     == parseJsonParam(params.rowsJson, <<"r","o","w">>)
      parsedRows    == IF caller = "PushRowToCollection"
                       THEN IF parsedRow.threw THEN parsedRow
                            ELSE Returns(<<parsedRow.value>>)
                       ELSE parseJsonArray(params.rowsJson, <<"r","o","w","s">>)
      parsedMap     == IF params.referenceMapJson.k = "absent" THEN Returns(<<>>)
                       ELSE parseJsonArray(params.referenceMapJson, <<"r","e","f","e","r","e","n","c","e","M","a","p">>)
  IN  IF parsedColumns.threw THEN parsedColumns
      ELSE IF NormalizeColumnsThrows(parsedColumns.value)
      THEN TypeError(<<"C","a","n","n","o","t"," ","r","e","a","d"," ","p","r","o","p","e","r","t","i","e","s"," ","o","f"," ","n","u","l","l"," ","(","r","e","a","d","i","n","g"," ","'","i","d","'",")">>)
      ELSE IF parsedRows.threw THEN parsedRows
      ELSE IF parsedMap.threw THEN parsedMap
      ELSE Returns([columns      |-> normalizeColumns(parsedColumns.value),
                    rows         |-> normalizeRows(parsedRows.value),
                    referenceMap |-> buildReferenceMap(parsedMap.value)])

\* execute, up to the first remote call
ParseParams ==
  /\ pc = "parse"
  /\ With(ParsedParams, LAMBDA parsed :
       IF parsed.threw
       THEN /\ pc' = "failed"
            /\ returned' = parsed
            /\ UNCHANGED inputs
       ELSE /\ columns' = parsed.value.columns
            /\ rows' = parsed.value.rows
            /\ referenceMap' = parsed.value.referenceMap
            /\ slugFieldId' = params.slugFieldId
            /\ use12HourTime' = Truthy(params.use12HourTime)
            /\ pc' = "collection"
            /\ UNCHANGED <<hostOffset, returned>>)
  /\ UNCHANGED <<others, colIdx, scanIdx, rowIdx, fields, lookupValueSets, warnings,
                 skippedCount, items, caller, params, remote, calls, collection,
                 existingFields, mergedFields, compatibleFields, fieldsSet>>

GetOrCreateManagedCollection ==
  /\ pc = "collection"
  /\ LET existing == FindByName(remote, params.collectionName)
     IN  IF existing # 0
         THEN /\ calls' = calls \o <<Call("connect", <<>>),
                                    Call("getManagedCollections", <<>>)>>
              /\ collection' = [collectionId   |-> remote[existing].id,
                                collectionName |-> remote[existing].name,
                                created        |-> FALSE]
              /\ remote' = remote
         ELSE /\ calls' = calls \o <<Call("connect", <<>>),
                                    Call("getManagedCollections", <<>>),
                                    Call("createManagedCollection", params.collectionName)>>
              /\ collection' = [collectionId   |-> CreatedId(remote),
                                collectionName |-> params.collectionName,
                                created        |-> TRUE]
              /\ remote' = Append(remote, [id |-> CreatedId(remote),
                                           name |-> params.collectionName,
                                           fields |-> <<>>, itemIds |-> {}])
  /\ pc' = "fields"
  /\ UNCHANGED <<inputs, others, colIdx, scanIdx, rowIdx, fields, lookupValueSets, warnings,
                 skippedCount, items, caller, params, existingFields, mergedFields,
                 compatibleFields, fieldsSet, returned>>

\* connect, getManagedCollections, find and target1.getFields()
GetFields ==
  /\ pc = "existing"
  /\ LET target1 == FindById(remote, collection.collectionId)
     IN  IF target1 = 0
         THEN /\ calls' = calls \o <<Call("connect", <<>>),
                                    Call("getManagedCollections", <<>>)>>
              /\ returned' = UserVisibleError(<<"M","a","n","a","g","e","d"," ","c","o","l","l","e","c","t","i","o","n"," ","n","o","t"," ","f","o","u","n","d",".">>)
              /\ pc' = "failed"
              /\ UNCHANGED existingFields
         ELSE /\ calls' = calls \o <<Call("connect", <<>>),
                                    Call("getManagedCollections", <<>>),
                                    Call("getFields", collection.collectionId)>>
              /\ existingFields' = remote[target1].fields
              /\ pc' = "merge"
              /\ UNCHANGED returned
  /\ UNCHANGED <<inputs, others, colIdx, scanIdx, rowIdx, fields, lookupValueSets, warnings,
                 skippedCount, items, caller, params, remote, collection,
                 mergedFields, compatibleFields, fieldsSet>>

MergeFields ==
  /\ pc = "merge"
  /\ mergedFields' = mergeFieldsWithExistingFields(fields, existingFields)
  /\ pc' = "setFields"
  /\ UNCHANGED <<inputs, others, colIdx, scanIdx, rowIdx, fields, lookupValueSets, warnings,
                 skippedCount, items, caller, params, remote, calls, collection,
                 existingFields, compatibleFields, fieldsSet, returned>>

SetCollectionFields ==
  /\ pc = "setFields"
  /\ LET found == FindById(remote, collection.collectionId)
     IN  IF found = 0
         THEN /\ calls' = calls \o <<Call("connect", <<>>),
                                    Call("getManagedCollections", <<>>)>>
              /\ returned' = UserVisibleError(<<"M","a","n","a","g","e","d"," ","c","o","l","l","e","c","t","i","o","n"," ","n","o","t"," ","f","o","u","n","d",".">>)
              /\ pc' = "failed"
              /\ UNCHANGED <<remote, compatibleFields, fieldsSet>>
         ELSE /\ compatibleFields' = CompatibleFields(mergedFields)
              /\ calls' = calls \o <<Call("connect", <<>>),
                                    Call("getManagedCollections", <<>>),
                                    Call("setFields", compatibleFields')>>
              /\ remote' = [remote EXCEPT ![found].fields = compatibleFields']
              /\ fieldsSet' = Len(compatibleFields')
              /\ pc' = "items"
              /\ UNCHANGED returned
  /\ UNCHANGED <<inputs, others, colIdx, scanIdx, rowIdx, fields, lookupValueSets, warnings,
                 skippedCount, items, caller, params, collection, existingFields,
                 mergedFields>>

\* mapping.items.map(item => item.id).filter(Boolean)
IncomingIds == {items[i].id : i \in {j \in DOMAIN items : items[j].id # <<>>}}

\* the order in which Array.from(existingIds) lists the ids to remove
RECURSIVE ListOf(_)
ListOf(ids) ==
  IF ids = {} THEN <<>>
  ELSE LET id == CHOOSE x \in ids : TRUE IN <<id>> \o ListOf(ids \ {id})

\* connect, getManagedCollections, find, the pruning and addItems
WriteItems ==
  /\ pc = "items"
  /\ LET target2  == FindById(remote, collection.collectionId)
         pruning  == caller = "PushTableToCollection" /\ Truthy(params.pruneMissing)
         toRemove == IF target2 = 0 THEN {} ELSE remote[target2].itemIds \ IncomingIds
         kept     == IF pruning THEN remote[target2].itemIds \ toRemove
                     ELSE remote[target2].itemIds
     IN  IF target2 = 0
         THEN /\ calls' = calls \o <<Call("connect", <<>>),
                                    Call("getManagedCollections", <<>>)>>
              /\ returned' = UserVisibleError(<<"M","a","n","a","g","e","d"," ","c","o","l","l","e","c","t","i","o","n"," ","n","o","t"," ","f","o","u","n","d",".">>)
              /\ pc' = "failed"
              /\ UNCHANGED remote
         ELSE /\ calls' = calls
                   \o <<Call("connect", <<>>), Call("getManagedCollections", <<>>)>>
                   \o (IF pruning THEN <<Call("getItemIds", <<>>)>> ELSE <<>>)
                   \o (IF pruning /\ toRemove # {}
                       THEN <<Call("removeItems", ListOf(toRemove))>> ELSE <<>>)
                   \o (IF Len(items) > 0 THEN <<Call("addItems", items)>> ELSE <<>>)
              /\ remote' = [remote EXCEPT ![target2].itemIds =
                              kept \cup {items[i].id : i \in DOMAIN items}]
              /\ pc' = "return"
              /\ UNCHANGED returned
  /\ UNCHANGED <<inputs, others, colIdx, scanIdx, rowIdx, fields, lookupValueSets, warnings,
                 skippedCount, items, caller, params, collection, existingFields,
                 mergedFields, compatibleFields, fieldsSet>>

\* the message of the result
PushedMessage ==
  (IF collection.created THEN <<"C","o","l","l","e","c","t","i","o","n"," ","c","r","e","a","t","e","d"," ","a","n","d"," ">> ELSE <<>>)
    \o NatToStr(Len(items)) \o <<" ","r","o","w","(","s",")"," ","p","u","s","h","e","d"," ","t","o"," ","\"">> \o collection.collectionName
    \o <<"\"","."," ","R","u","n"," ","P","u","b","l","i","s","h","P","r","o","j","e","c","t"," ","t","o"," ","d","e","p","l","o","y",".">>

\* the push that ends with publishIfRequested and reports its deployment
ReturnResult_Publishes ==
  /\ pc = "return"
  /\ calls' = calls \o <<Call("connect", <<>>), Call("publish", <<>>),
                         Call("deploy", <<"d","e","p","1">>)>>
  /\ returned' = Returns([collectionId   |-> collection.collectionId,
                          collectionName |-> collection.collectionName,
                          itemsAdded     |-> Len(items),
                          itemsSkipped   |-> skippedCount,
                          fieldsSet      |-> fieldsSet,
                          warnings       |-> warnings,
                          published      |-> TRUE,
                          deploymentId   |-> <<"d","e","p","1">>,
                          message        |-> PushedMessage])
  /\ pc' = "done"
  /\ UNCHANGED <<inputs, others, colIdx, scanIdx, rowIdx, fields, lookupValueSets, warnings,
                 skippedCount, items, caller, params, remote, collection,
                 existingFields, mergedFields, compatibleFields, fieldsSet>>

\* return { collectionId, ..., message }; the check mark that opens the
\* message is left out
ReturnResult ==
  /\ pc = "return"
  /\ returned' = Returns([collectionId   |-> collection.collectionId,
                          collectionName |-> collection.collectionName,
                          itemsAdded     |-> Len(items),
                          itemsSkipped   |-> skippedCount,
                          fieldsSet      |-> fieldsSet,
                          warnings       |-> warnings,
                          published      |-> FALSE,
                          deploymentId   |-> <<>>,
                          message        |-> PushedMessage])
  /\ pc' = "done"
  /\ UNCHANGED <<inputs, others, colIdx, scanIdx, rowIdx, fields, lookupValueSets, warnings,
                 skippedCount, items, caller, params, remote, calls, collection,
                 existingFields, mergedFields, compatibleFields, fieldsSet>>

(***************************************************************************)
(* Inputs of the pack actions                                              *)
(***************************************************************************)
RawColumn(id, name, format) ==
  Obj(<<"i","d">> :> id @@ <<"n","a","m","e">> :> name @@ <<"f","o","r","m","a","t">> :> format)

\* the slug column and one more column: an array lookup into a table, a
\* scalar lookup, a number column without a name, a column without a format
PackColumnLists ==
  LET slug == RawColumn(Str(<<"c","1">>), Str(<<"T","i","t","l","e">>), Obj1(<<"t","y","p","e">>, Str(<<"t","e","x","t">>)))
  IN  {<<slug, RawColumn(Str(<<"c","2">>), Str(<<"T","a","g","s">>),
                         Obj(<<"t","y","p","e">> :> Str(<<"l","o","o","k","u","p">>) @@ <<"i","s","A","r","r","a","y">> :> Bool(TRUE)
                             @@ <<"t","a","b","l","e">> :> Obj1(<<"i","d">>, Str(<<"t","b","l","A">>))))>>,
       <<slug, RawColumn(Str(<<"c","2">>), Str(<<"C","o","l","o","r">>), Obj1(<<"t","y","p","e">>, Str(<<"l","o","o","k","u","p">>)))>>,
       <<slug, Obj2(<<"i","d">>, Str(<<"c","2">>), <<"f","o","r","m","a","t">>, Obj1(<<"t","y","p","e">>, Str(<<"n","u","m","b","e","r">>)))>>,
       <<slug, Obj2(<<"i","d">>, Str(<<"c","2">>), <<"n","a","m","e">>, Str(<<"K","i","n","d">>))>>}

\* a kept row, a row with a blank slug, a row without an id, a flat row
PackRows ==
  {RowOf(Str(<<"r","1">>), <<"c","1">> :> Str(<<"H","e","l","l","o">>) @@ <<"c","2">> :> Str(<<"R","e","d">>)),
   RowOf(Str(<<"r","2">>), <<"c","1">> :> Str(<<" "," ">>) @@ <<"c","2">> :> Num(5)),
   Obj1(<<"v","a","l","u","e","s">>, Obj1(<<"c","1">>, Str(<<"N","o"," ","i","d">>))),
   Obj2(<<"i","d">>, Str(<<"r","3">>), <<"c","1">>, Str(<<"W","o","r","l","d">>))}

PackReferenceMaps ==
  {NoText,
   JsonText(Arr(<<Obj2(<<"c","o","d","a","T","a","b","l","e","I","d">>, Str(<<"t","b","l","A">>),
                       <<"f","r","a","m","e","r","C","o","l","l","e","c","t","i","o","n","I","d">>, Str(<<"c","o","l","A">>))>>))}

\* the project before the push: no collection, or a collection "Posts" whose
\* first field was renamed in Framer, with a field and two items of its own
Posts ==
  [id |-> <<"c","o","l","1">>, name |-> <<"P","o","s","t","s">>,
   fields |-> <<[id |-> <<"c","1">>, name |-> <<"H","e","a","d","l","i","n","e">>, type |-> "string"],
                [id |-> <<"x","9">>, name |-> <<"L","e","g","a","c","y">>, type |-> "string"]>>,
   itemIds |-> {<<"r","2">>, <<"r","9">>}]

\* the collection name asked for and the project it is asked of
PackTargets == {<<<<"P","o","s","t","s">>, <<Posts>>>>, <<<<"D","r","a","f","t","s">>, <<Posts>>>>, <<<<"P","o","s","t","s">>, <<>>>>}

Params(columnsJson, rowsJson, referenceMapJson, pruneMissing, target) ==
  [columnsJson |-> columnsJson, rowsJson |-> rowsJson,
   referenceMapJson |-> referenceMapJson, slugFieldId |-> <<"c","1">>,
   collectionName |-> target[1], pruneMissing |-> pruneMissing,
   use12HourTime |-> Undef]

\* the state on entry to execute
StartPush(action, parameters, collections) ==
  /\ caller = action
  /\ params = parameters
  /\ remote = collections
  /\ calls = <<>>
  /\ collection = Null
  /\ existingFields = <<>>
  /\ mergedFields = <<>>
  /\ compatibleFields = <<>>
  /\ fieldsSet = 0
  /\ returned = Null
  /\ changedPaths = Undef
  /\ publishResult = Null
  /\ invocations = <<>>
  /\ round = 1
  /\ firstPush = Null
  /\ columns = <<>>
  /\ rows = <<>>
  /\ slugFieldId = <<>>
  /\ referenceMap = buildReferenceMap(<<>>)
  /\ use12HourTime = FALSE
  /\ hostOffset = 0
  /\ pc = "parse"
  /\ colIdx = 0
  /\ scanIdx = 0
  /\ rowIdx = 0
  /\ fields = <<>>
  /\ lookupValueSets = [id \in {} |-> <<>>]
  /\ warnings = <<>>
  /\ skippedCount = 0
  /\ items = <<>>

InitPushTable ==
  \E cols \in PackColumnLists : \E n \in 1..MaxRows : \E rawRows \in [1..n -> PackRows] :
  \E map \in PackReferenceMaps : \E prune \in {Undef, Bool(TRUE)} :
  \E target \in PackTargets :
    StartPush("PushTableToCollection",
              Params(JsonText(Arr(cols)), JsonText(Arr(rawRows)), map, prune, target),
              target[2])

\* rowJson is one row, of any JSON type
InitPushRow ==
  \E cols \in PackColumnLists : \E row \in PackRows \cup {Str(<<"r","1">>)} :
  \E map \in PackReferenceMaps : \E target \in PackTargets :
    StartPush("PushRowToCollection",
              Params(JsonText(Arr(cols)), JsonText(row), map, Undef, target),
              target[2])

\* a text JSON.parse rejects, a text that holds no array, an array that
\* holds no object
MalformedTexts ==
  {BadText(<<"U","n","e","x","p","e","c","t","e","d"," ","t","o","k","e","n"," ","o"," ","i","n"," ","J","S","O","N"," ","a","t"," ","p","o","s","i","t","i","o","n"," ","1">>), JsonText(EmptyObj),
   JsonText(Arr(<<Null>>))}

InitMalformed ==
  \E action \in {"PushRowToCollection", "PushTableToCollection"} :
  \E cols \in {JsonText(Arr(c)) : c \in PackColumnLists} \cup MalformedTexts :
  \E rawRows \in {JsonText(Arr(<<r>>)) : r \in PackRows} \cup MalformedTexts :
  \E map \in PackReferenceMaps \cup MalformedTexts :
    StartPush(action, Params(cols, rawRows, map, Undef, <<<<"P","o","s","t","s">>, <<Posts>>>>),
              <<Posts>>)

PushInit == InitPushTable \/ InitPushRow \/ InitMalformed

PushNext ==
  \/ ParseParams \/ GetOrCreateManagedCollection
  \/ MapColumn \/ StartScan \/ ScanRow \/ AssignCases \/ TransformRow \/ Return
  \/ GetFields \/ MergeFields \/ SetCollectionFields \/ WriteItems \/ ReturnResult

PushSpec == PushInit /\ [][PushNext]_vars

(***************************************************************************)
(* Claims about the pack actions                                           *)
(***************************************************************************)
\* the step in which execute calls mergeFieldsWithExistingFields
MergeStep == pc = "merge" /\ pc' = "setFields"

\* the merged field is the local field but for its name
SameButName(merged, sourceField) ==
  /\ DOMAIN merged = DOMAIN sourceField
  /\ \A key \in DOMAIN sourceField \ {"name"} : merged[key] = sourceField[key]



\* C11: the merge returns a list of the length and order of the local field
\* list; each field is the local field (id, type, cases, collectionId,
\* allowedFileTypes) with the name of the remote field of the same id when
\* there is one and the local name otherwise; no remote-only field is added
\* and neither input list is modified.
C11_MergeKeepsLocalFields ==
  [][MergeStep =>
       /\ Len(mergedFields') = Len(fields)
       /\ \A i \in DOMAIN fields :
            /\ SameButName(mergedFields'[i], fields[i])
            /\ IF \E j \in DOMAIN existingFields : existingFields[j].id = fields[i].id
               THEN \E j \in DOMAIN existingFields :
                      /\ existingFields[j].id = fields[i].id
                      /\ mergedFields'[i].name = existingFields[j].name
               ELSE mergedFields'[i].name = fields[i].name
       /\ fields' = fields
       /\ existingFields' = existingFields]_vars

\* a merge with a field renamed in Framer, a field Framer does not have and
\* a field only Framer has
C11_Witness ==
  /\ pc = "setFields"
  /\ \E i \in DOMAIN fields : mergedFields[i].name # fields[i].name
  /\ \E i \in DOMAIN fields :
       /\ \A j \in DOMAIN existingFields : existingFields[j].id # fields[i].id
       /\ "cases" \in DOMAIN fields[i] \/ "collectionId" \in DOMAIN fields[i]
  /\ \E j \in DOMAIN existingFields :
       \A i \in DOMAIN fields : fields[i].id # existingFields[j].id

\* the step in which setCollectionFields filters the list and writes it
FilterStep == pc = "setFields" /\ pc' = "items"

\* a multiCollectionReference field without a string collectionId
Unresolved(field) ==
  field.type = "multiCollectionReference" /\ "collectionId" \notin DOMAIN field

Resolved(fieldList) == SelectSeq(fieldList, LAMBDA field : ~Unresolved(field))

\* the last call made on the Framer client
LastCall == calls[Len(calls)]

\* what is written is the filtered list, and fieldsSet is its length
WrittenIsFiltered ==
  /\ LastCall'.op = "setFields"
  /\ LastCall'.arg = compatibleFields'
  /\ \A i \in DOMAIN compatibleFields' : ~Unresolved(compatibleFields'[i])
  /\ fieldsSet' = Len(compatibleFields')

Rank(op) ==
  IF op = "createManagedCollection" THEN 1
  ELSE IF op = "getFields" THEN 2
  ELSE IF op = "setFields" THEN 3
  ELSE IF op = "getItemIds" THEN 4
  ELSE IF op = "removeItems" THEN 5
  ELSE IF op = "addItems" THEN 6
  ELSE 0

Called(op) == \E i \in DOMAIN calls : calls[i].op = op

\* C13: in both push actions the remote operations come in this order: the
\* collection is found or created, its field list is read, the fields are
\* merged, setFields is written, then items are removed and added; no item is
\* removed or added before setFields, and the field list the merge uses is
\* read from the collection found or created.
C13_RemoteOrder ==
  /\ \A i, j \in DOMAIN calls :
       (Rank(calls[i].op) # 0 /\ Rank(calls[i].op) < Rank(calls[j].op)) => i < j
  /\ \A i \in DOMAIN calls :
       /\ Rank(calls[i].op) > 1 =>
             /\ collection # Null
             /\ calls[1].op = "connect" /\ calls[2].op = "getManagedCollections"
       /\ calls[i].op \in {"removeItems", "addItems"} =>
             \E j \in 1..(i - 1) : calls[j].op = "setFields"
       /\ calls[i].op = "setFields" =>
             \E j \in 1..(i - 1) : calls[j].op = "getFields"
  /\ pc = "merge" =>
       /\ LastCall.op = "getFields"
       /\ LastCall.arg = collection.collectionId
       /\ existingFields = remote[FindById(remote, collection.collectionId)].fields
  /\ pc = "setFields" => Called("getFields") /\ ~Called("setFields")
  /\ pc \in {"return", "done"} => Called("getFields") /\ Called("setFields")

\* a push that read the fields, wrote them, removed items and added items
C13_Witness ==
  /\ pc = "done"
  /\ Called("getFields") /\ Called("setFields")
  /\ Called("removeItems") /\ LastCall.op = "addItems"

\* the step in which execute parses its JSON parameters
ParseStep == pc = "parse" /\ pc' # "parse"

\* the label execute gives to the rows parameter
RowsLabel == IF caller = "PushRowToCollection" THEN <<"r","o","w">> ELSE <<"r","o","w","s">>

\* the parameters that are unparsable, or hold no array where one is required
Offending ==
  {label \in {<<"c","o","l","u","m","n","s">>, RowsLabel, <<"r","e","f","e","r","e","n","c","e","M","a","p">>} :
     LET raw == IF label = <<"c","o","l","u","m","n","s">> THEN params.columnsJson
                ELSE IF label = <<"r","e","f","e","r","e","n","c","e","M","a","p">> THEN params.referenceMapJson
                ELSE params.rowsJson
     IN  \/ raw.k = "bad"
         \/ raw.k = "json" /\ label # <<"r","o","w">> /\ ~IsArray(raw.value)}

\* the two messages that name a parameter
NamesParameter(message, label) ==
  \/ StartsWith(message, <<"I","n","v","a","l","i","d"," ">> \o label \o <<" ","J","S","O","N",":"," ">>)
  \/ message = label \o <<" ","m","u","s","t"," ","b","e"," ","a"," ","J","S","O","N"," ","a","r","r","a","y",".">>

\* C14: when columnsJson, rowsJson (rowJson) or a supplied referenceMapJson
\* is unparsable, or columnsJson, rowsJson or referenceMapJson holds no
\* array, the push action fails with a user-visible error whose message
\* names an offending parameter, and no remote call has been made.
C14_MalformedInputFailsFirst ==
  [][(ParseStep /\ Offending # {}) =>
       /\ pc' = "failed"
       /\ returned'.threw
       /\ returned'.userVisible
       /\ \E label \in Offending : NamesParameter(returned'.error, label)
       /\ calls' = <<>>]_vars

\* C15: for every column list normalizeColumns returns and every row list
\* normalizeRows returns, buildFieldsAndItems never raises: the Type Mapper
\* yields a field or null for every column, also for a format without a type
\* and for a select/scale column whose choices are not an array.
C15_NeverRaises == pc # "threw"

PruneStep ==
  /\ pc = "items" /\ pc' = "return"
  /\ caller = "PushTableToCollection"
  /\ Truthy(params.pruneMissing)

\* the ids of the rows of the rows payload
PayloadIds == {rows[i].id.s : i \in {j \in DOMAIN rows : IsString(rows[j].id)}}

\* the items the collection holds
ItemIdsOf(collections) == collections[FindById(collections, collection.collectionId)].itemIds

\* the ids passed to removeItems in the step, none if it was not called
RemovedIds ==
  {id \in ItemIdsOf(remote) :
     \E i \in (Len(calls) + 1)..Len(calls') :
       /\ calls'[i].op = "removeItems"
       /\ \E n \in DOMAIN calls'[i].arg : calls'[i].arg[n] = id}

\* C17: with pruneMissing set, the items removed are exactly the items the
\* collection held before whose id is the id of no row of the rows payload;
\* no item whose row is in the payload is removed, skipped in the mapping or
\* not.
C17_PruneKeepsPayloadRows ==
  [][PruneStep => RemovedIds = ItemIdsOf(remote) \ PayloadIds]_vars

\* a lookup column that holds one value
ScalarLookup(column) ==
  ToLower(column.format.type) = <<"l","o","o","k","u","p">> /\ ~column.format.isArray

\* the column step appends one field of the given type
AppendsFieldOfType(type) ==
  /\ Len(fields') = Len(fields) + 1
  /\ fields'[Len(fields')].id = CurrentColumn.id
  /\ fields'[Len(fields')].type = type

ChoiceListOf(column) ==
  IF IsArray(column.format.options) THEN column.format.options
  ELSE Get(column.format.options, <<"c","h","o","i","c","e","s">>)

\* a select or scale column that declares a choice list
SelectWithChoices(column) ==
  /\ ToLower(column.format.type) \in {<<"s","e","l","e","c","t">>, <<"s","c","a","l","e">>}
  /\ Truthy(ChoiceListOf(column))

\* the dispatch table of the Type Mapper, on the lower-cased type string
TableType(type, isArray) ==
  IF type \in {<<"t","e","x","t">>, <<"e","m","a","i","l">>, <<"p","h","o","n","e">>, <<"t","i","m","e">>, <<"p","e","r","s","o","n">>, <<"r","e","f","e","r","e","n","c","e">>} THEN "string"
  ELSE IF type \in {<<"n","u","m","b","e","r">>, <<"c","u","r","r","e","n","c","y">>, <<"p","e","r","c","e","n","t">>, <<"d","u","r","a","t","i","o","n">>} THEN "number"
  ELSE IF type = <<"c","h","e","c","k","b","o","x">> THEN "boolean"
  ELSE IF type \in {<<"d","a","t","e">>, <<"d","a","t","e","t","i","m","e">>} THEN "date"
  ELSE IF type = <<"i","m","a","g","e">> THEN "image"
  ELSE IF type = <<"f","i","l","e">> THEN "file"
  ELSE IF type \in {<<"c","a","n","v","a","s">>, <<"r","i","c","h","t","e","x","t">>} THEN "formattedText"
  ELSE IF type \in {<<"u","r","l">>, <<"l","i","n","k">>} THEN "link"
  ELSE IF type = <<"l","o","o","k","u","p">> THEN IF isArray THEN "string" ELSE "enum"
  ELSE "string"

TableField(column) ==
  LET type  == TableType(ToLower(column.format.type), column.format.isArray)
      plain == [id |-> column.id, name |-> column.name, type |-> type]
  IN  IF type = "file" THEN plain @@ [allowedFileTypes |-> <<<<"*">>>>]
      ELSE IF type = "enum" THEN plain @@ [cases |-> <<>>]
      ELSE plain

NothingNumeric(cell) ==
  /\ IsObject(cell)
  /\ ~IsNumber(Get(cell, <<"v","a","l","u","e">>))
  /\ ~IsNumber(Get(cell, <<"a","m","o","u","n","t">>))

\* C20: for a number field every raw value yields an entry of type number
\* whose value is a number, and no warning is added; the value is 0 for an
\* object without a numeric amount or value, a MonetaryAmount object without
\* a numeric amount among them.
C20_NumberEntryIsNumeric ==
  [][KeepStep =>
       /\ warnings' = warnings
       /\ \A fieldId \in DOMAIN CurrentRow.values :
            (FieldOf(fieldId) # NoField /\ FieldOf(fieldId).type = "number") =>
              /\ fieldId \in DOMAIN NewItem.fieldData
              /\ NewItem.fieldData[fieldId].type = "number"
              /\ IsNumber(NewItem.fieldData[fieldId].value)
              /\ NothingNumeric(CurrentRow.values[fieldId]) =>
                   NewItem.fieldData[fieldId].value = Num(0)]_vars

\* a string field whose source column has the type time
TimeString(fieldId) ==
  /\ FieldOf(fieldId) # NoField
  /\ FieldOf(fieldId).type = "string"
  /\ CodaTypeOf(fieldId) = <<"t","i","m","e">>

\* what the Time Formatter makes of a cell, Null when it cannot parse it
FormattedTime(cell) == formatTimeValue(cell, use12HourTime, hostOffset)

\* C21 as stated: for a string field whose source type is time the value is
\* the Time Formatter's, and a non-blank raw value the formatter cannot parse
\* yields no entry: the key is omitted from the item's field data.
C21_UnparsedTimeOmitted ==
  [][KeepStep =>
       \A fieldId \in DOMAIN CurrentRow.values :
         (TimeString(fieldId) /\ ~IsBlank(CurrentRow.values[fieldId])) =>
           IF FormattedTime(CurrentRow.values[fieldId]) # Null
           THEN /\ fieldId \in DOMAIN NewItem.fieldData
                /\ NewItem.fieldData[fieldId] =
                     Entry("string", FormattedTime(CurrentRow.values[fieldId]))
           ELSE fieldId \notin DOMAIN NewItem.fieldData]_vars

\* C21: for a string field whose source type is time the value is the Time
\* Formatter's; a non-blank raw value the formatter cannot parse keeps its
\* key, with the string entry the same raw value has under the source type
\* text.
C21_UnparsedTimeIsText ==
  [][KeepStep =>
       \A fieldId \in DOMAIN CurrentRow.values :
         (TimeString(fieldId) /\ ~IsBlank(CurrentRow.values[fieldId])) =>
           /\ fieldId \in DOMAIN NewItem.fieldData
           /\ NewItem.fieldData[fieldId] =
                IF FormattedTime(CurrentRow.values[fieldId]) # Null
                THEN Entry("string", FormattedTime(CurrentRow.values[fieldId]))
                ELSE transformCodaValue(CurrentRow.values[fieldId], FieldOf(fieldId),
                                        <<"t","e","x","t">>, use12HourTime, hostOffset)]_vars

C21_Witness ==
  /\ pc = "done"
  /\ Len(items) = 1
  /\ \E fieldId \in DOMAIN rows[1].values :
       /\ TimeString(fieldId)
       /\ rows[1].values[fieldId] = Str(<<"s","o","o","n">>)
       /\ FormattedTime(rows[1].values[fieldId]) = Null
       /\ fieldId \in DOMAIN items[1].fieldData
       /\ items[1].fieldData[fieldId] = Entry("string", Str(<<"s","o","o","n">>))

\* a date field whose source column has the type date, datetime or time
DateField(fieldId) ==
  /\ FieldOf(fieldId) # NoField
  /\ FieldOf(fieldId).type = "date"
  /\ CodaTypeOf(fieldId) \in {<<"d","a","t","e">>, <<"d","a","t","e","t","i","m","e">>, <<"t","i","m","e">>}

\* the timestamp a cell of a date field holds, as the host reads it
OriginalOf(cell) == ParseDate(ToStr(DateValueOf(cell)), hostOffset)

\* a cell of a date field that holds a timestamp
Timestamped(fieldId, cell) ==
  DateField(fieldId) /\ ~IsBlank(cell) /\ OriginalOf(cell).ok

\* the emitted value of a date entry, read back by ISO 8601 parsing
ReadBack(entry) == ParseDate(entry.value.s, hostOffset)

\* the year the date case writes for a timestamp: of its UTC reading for the
\* source type date, of its local reading otherwise
WrittenYear(fieldId, original) ==
  IF CodaTypeOf(fieldId) = <<"d","a","t","e">>
  THEN FieldsOf(original).y
  ELSE LocalFieldsOf(original, hostOffset).y

\* C22 as stated: the emitted value of a date field, parsed as ISO 8601, is
\* the original timestamp at the granularity of the source type: the UTC
\* calendar day for date, the millisecond instant for datetime, the time of
\* day for time, under every offset of the host.
C22_RoundTripIsOriginal ==
  [][KeepStep =>
       \A fieldId \in DOMAIN CurrentRow.values :
         Timestamped(fieldId, CurrentRow.values[fieldId]) =>
           /\ fieldId \in DOMAIN NewItem.fieldData
           /\ LET original == OriginalOf(CurrentRow.values[fieldId])
                  back     == ReadBack(NewItem.fieldData[fieldId])
              IN  /\ back.ok
                  /\ CodaTypeOf(fieldId) = <<"d","a","t","e">> => back.day = original.day
                  /\ CodaTypeOf(fieldId) = <<"d","a","t","e","t","i","m","e">> =>
                       back.day = original.day /\ back.ms = original.ms
                  /\ CodaTypeOf(fieldId) = <<"t","i","m","e">> => back.ms = original.ms]_vars

\* C22: a date field never has the source type time; when the year written
\* has four digits, the emitted value of a date field, parsed as ISO 8601,
\* is the UTC calendar day of the original timestamp for the source type
\* date and, for the source type datetime, the original instant moved by the
\* offset of the host (its local wall-clock reading stamped as UTC).
C22_RoundTripIsLocalReading ==
  [][KeepStep =>
       \A fieldId \in DOMAIN CurrentRow.values :
         Timestamped(fieldId, CurrentRow.values[fieldId]) =>
           /\ fieldId \in DOMAIN NewItem.fieldData
           /\ CodaTypeOf(fieldId) # <<"t","i","m","e">>
           /\ WrittenYear(fieldId, OriginalOf(CurrentRow.values[fieldId])) \in 1000..9999 =>
              LET original == OriginalOf(CurrentRow.values[fieldId])
                  moved    == ShiftMinutes(original, hostOffset)
                  back     == ReadBack(NewItem.fieldData[fieldId])
              IN  /\ back.ok
                  /\ CodaTypeOf(fieldId) = <<"d","a","t","e">> =>
                       back.day = original.day /\ back.ms = 0
                  /\ CodaTypeOf(fieldId) = <<"d","a","t","e","t","i","m","e">> =>
                       back.day = moved.day /\ back.ms = moved.ms]_vars

C22_Witness ==
  /\ pc = "done"
  /\ Len(items) = 1
  /\ hostOffset = 330
  /\ \E fieldId \in DOMAIN rows[1].values :
       /\ Timestamped(fieldId, rows[1].values[fieldId])
       /\ CodaTypeOf(fieldId) = <<"d","a","t","e","t","i","m","e">>
       /\ rows[1].values[fieldId] = Str(<<"2","0","2","4","-","0","3","-","0","1","T","2","3",":","3","0",":","0","0","Z">>)
       /\ items[1].fieldData[fieldId] = Entry("date", Str(<<"2","0","2","4","-","0","3","-","0","2","T","0","5",":","0","0",":","0","0",".","0","0","0","Z">>))

\* the label of an enum cell: the string itself, the name (else the id) of an
\* object, the first element of a non-empty array (its name if it is an
\* object, itself if it is a string)
LabelOfCell(cell) ==
  LET OfObject(obj) == IF IsString(Get(obj, <<"n","a","m","e">>)) THEN Get(obj, <<"n","a","m","e">>).s
                       ELSE IF IsString(Get(obj, <<"i","d">>)) THEN Get(obj, <<"i","d">>).s
                       ELSE <<>>
      raw == IF IsString(cell) THEN cell.s
             ELSE IF IsArray(cell)
             THEN IF cell.a = <<>> THEN <<>>
                  ELSE IF IsString(cell.a[1]) THEN cell.a[1].s
                  ELSE IF cell.a[1].k = "obj" /\ IsString(Get(cell.a[1], <<"n","a","m","e">>))
                  THEN Get(cell.a[1], <<"n","a","m","e">>).s
                  ELSE <<>>
             ELSE IF cell.k = "obj" THEN OfObject(cell)
             ELSE <<>>
  IN  Trim(StripFences(raw))

\* the id of the case a label resolves to: the first case with that id, else
\* the first case with that name, else the label itself
ResolvedCase(label, field) ==
  LET cases == IF "cases" \in DOMAIN field THEN field.cases ELSE <<>>
      ById(i) == cases[i].id = label
      ByName(i) == cases[i].name = label
      First(P(_)) == CHOOSE i \in DOMAIN cases : P(i) /\ \A j \in 1..(i - 1) : ~P(j)
  IN  IF \E i \in DOMAIN cases : ById(i) THEN cases[First(ById)].id
      ELSE IF \E i \in DOMAIN cases : ByName(i) THEN cases[First(ByName)].id
      ELSE label

\* C23: for an enum field and a non-blank raw value, the label is taken from
\* a string, an object's name (else id) or the first element of a non-empty
\* array, fence-stripped and trimmed; the entry's value is the id of the case
\* whose id equals the label, else of the case whose name equals it, else the
\* label itself; the key is omitted exactly when the label is empty.
C23_EnumValueIsResolvedLabel ==
  [][KeepStep =>
       \A fieldId \in DOMAIN CurrentRow.values :
         (/\ FieldOf(fieldId) # NoField
          /\ FieldOf(fieldId).type = "enum"
          /\ ~IsBlank(CurrentRow.values[fieldId])) =>
           LET label == LabelOfCell(CurrentRow.values[fieldId])
           IN  IF label = <<>>
               THEN fieldId \notin DOMAIN NewItem.fieldData
               ELSE /\ fieldId \in DOMAIN NewItem.fieldData
                    /\ NewItem.fieldData[fieldId] =
                         Entry("enum", Str(ResolvedCase(label, FieldOf(fieldId))))]_vars

\* the keys of a wrapper object that may hold its text, in the order tried
TextKeys == <<<<"r","a","w","V","a","l","u","e">>, <<"v","a","l","u","e">>, <<"d","i","s","p","l","a","y","V","a","l","u","e">>, <<"n","a","m","e">>, <<"c","o","n","t","e","n","t">>>>

\* a WebPage object with a string url
IsWebPage(cell) ==
  IsString(Get(cell, <<"u","r","l">>)) /\ Get(cell, <<"@","t","y","p","e">>) = Str(<<"W","e","b","P","a","g","e">>)

\* an object cell with a text to extract
HasText(cell) ==
  /\ cell.k = "obj"
  /\ IsWebPage(cell) \/ \E i \in DOMAIN TextKeys : IsString(Get(cell, TextKeys[i]))

\* the text of such a cell: the url of a WebPage, else the value of the first
\* string-valued key
TextOfObject(cell) ==
  IF IsWebPage(cell) THEN Get(cell, <<"u","r","l">>).s
  ELSE Get(cell, TextKeys[CHOOSE i \in DOMAIN TextKeys :
                            /\ IsString(Get(cell, TextKeys[i]))
                            /\ \A j \in 1..(i - 1) : ~IsString(Get(cell, TextKeys[j]))]).s

\* C24: for a string field whose source type is not time and a raw value that
\* is a non-array object, the entry's value is the markdown-stripped text of
\* the first string-valued key among rawValue, value, displayValue, name and
\* content (the url of a WebPage object); { rawValue: s } yields s.
C24_ObjectTextOfFirstKey ==
  [][KeepStep =>
       \A fieldId \in DOMAIN CurrentRow.values :
         (/\ FieldOf(fieldId) # NoField
          /\ FieldOf(fieldId).type = "string"
          /\ CodaTypeOf(fieldId) # <<"t","i","m","e">>
          /\ HasText(CurrentRow.values[fieldId])) =>
           /\ fieldId \in DOMAIN NewItem.fieldData
           /\ NewItem.fieldData[fieldId] =
                Entry("string", Str(stripMarkdown(TextOfObject(CurrentRow.values[fieldId]))))]_vars

\* the candidate URL of an object cell by priority: an acceptable url,
\* contentUrl or thumbnailUrl of an ImageObject; else the first string among
\* the generic keys; else linkedRow.url, linkedRow.imageUrl
CandidateByPriority(cell) ==
  LET Has(obj, key) == IsString(Get(obj, key))
      linkedRow == Get(cell, <<"l","i","n","k","e","d","R","o","w">>)
  IN  IF ImageObjectUrl(cell) # <<>> THEN ImageObjectUrl(cell)
      ELSE IF Has(cell, <<"u","r","l">>) THEN Get(cell, <<"u","r","l">>).s
      ELSE IF Has(cell, <<"l","i","n","k">>) THEN Get(cell, <<"l","i","n","k">>).s
      ELSE IF Has(cell, <<"v","a","l","u","e">>) THEN extractUrlFromMarkdown(Get(cell, <<"v","a","l","u","e">>).s)
      ELSE IF Has(cell, <<"r","a","w","V","a","l","u","e">>) THEN extractUrlFromMarkdown(Get(cell, <<"r","a","w","V","a","l","u","e">>).s)
      ELSE IF Has(cell, <<"i","m","a","g","e","U","r","l">>) THEN Get(cell, <<"i","m","a","g","e","U","r","l">>).s
      ELSE IF Has(cell, <<"t","h","u","m","b","n","a","i","l","U","r","l">>) THEN Get(cell, <<"t","h","u","m","b","n","a","i","l","U","r","l">>).s
      ELSE IF linkedRow.k = "obj" /\ Has(linkedRow, <<"u","r","l">>) THEN Get(linkedRow, <<"u","r","l">>).s
      ELSE IF linkedRow.k = "obj" /\ Has(linkedRow, <<"i","m","a","g","e","U","r","l">>) THEN Get(linkedRow, <<"i","m","a","g","e","U","r","l">>).s
      ELSE <<>>

\* C25: for an image field and an object raw value the candidate URL is
\* chosen by a fixed priority (an acceptable ImageObject url, contentUrl or
\* thumbnailUrl; then the generic keys; then linkedRow.url and
\* linkedRow.imageUrl), a candidate of higher priority is never replaced by
\* one of lower priority, and the entry is emitted exactly when the chosen
\* candidate is an acceptable URL.
C25_ImageCandidateByPriority ==
  [][KeepStep =>
       \A fieldId \in DOMAIN CurrentRow.values :
         (/\ FieldOf(fieldId) # NoField
          /\ FieldOf(fieldId).type = "image"
          /\ CurrentRow.values[fieldId].k = "obj") =>
           LET chosen == CandidateByPriority(CurrentRow.values[fieldId])
           IN  IF chosen # <<>> /\ Acceptable(chosen)
               THEN /\ fieldId \in DOMAIN NewItem.fieldData
                    /\ NewItem.fieldData[fieldId] = Entry("image", Str(Trim(chosen)))
               ELSE fieldId \notin DOMAIN NewItem.fieldData]_vars

\* an array lookup column whose table id is not a key of the reference map
UnresolvedArrayLookup(column) ==
  /\ ToLower(column.format.type) = <<"l","o","o","k","u","p">>
  /\ column.format.isArray
  /\ IsString(TableIdOf(column))
  /\ TableIdOf(column).s \notin DOMAIN referenceMap

\* one that the Type Mapper maps to string and whose table id is not empty
WarnedArrayLookup(column) ==
  /\ UnresolvedArrayLookup(column)
  /\ ArrayLookupAsString(column)
  /\ TableIdOf(column).s # <<>>

\* the k-th smallest element of a set of numbers
NthOf(set, k) == CHOOSE n \in set : Cardinality({m \in set : m <= n}) = k

\* the accounting of the row loop after rowIdx rows, columnWarnings being the
\* warnings the columns left: every row visited is an item or is counted as
\* skipped, the items are those of the rows kept, in row order, and every
\* skipped row has left one warning
Accounted(columnWarnings) ==
  /\ Len(items) + skippedCount = rowIdx
  /\ \E kept \in SUBSET (1..rowIdx) :
       /\ Cardinality(kept) = Len(items)
       /\ \A i \in DOMAIN items :
            /\ IsString(rows[NthOf(kept, i)].id)
            /\ items[i].id = rows[NthOf(kept, i)].id.s
  /\ Len(warnings) = skippedCount + columnWarnings
  /\ pc = "done" => rowIdx = Len(rows)

\* C27 as stated: in every result items.length + skippedCount = rows.length,
\* the items are in the order of their rows, no skipped row stops the loop,
\* each skipped row adds one warning, and warnings.length = skippedCount +
\* the number of array lookup columns with an unresolved table id.
C27_WarningsCountUnresolved ==
  pc \in {"rows", "done"} =>
    Accounted(Cardinality({i \in DOMAIN columns : UnresolvedArrayLookup(columns[i])}))

\* C27: the same accounting, the columns counted being the array lookup
\* columns that the Type Mapper maps to string (none named after an image)
\* and whose table id is a non-empty string absent from the reference map.
C27_WarningsCountWarned ==
  pc \in {"rows", "done"} =>
    Accounted(Cardinality({i \in DOMAIN columns : WarnedArrayLookup(columns[i])}))

C27_Witness ==
  /\ pc = "done"
  /\ Len(rows) = 2
  /\ skippedCount = 1
  /\ Len(items) = 1
  /\ IsString(rows[2].id)
  /\ items[1].id = rows[2].id.s
  /\ \E i \in DOMAIN columns : WarnedArrayLookup(columns[i])
  /\ Len(warnings) = 2

\* the field lists passed to setFields so far
WrittenFieldLists == {calls[i].arg : i \in {j \in DOMAIN calls : calls[j].op = "setFields"}}

\* the items passed to addItems so far
WrittenItems ==
  UNION {{calls[i].arg[n] : n \in DOMAIN calls[i].arg} :
           i \in {j \in DOMAIN calls : calls[j].op = "addItems"}}

\* C28: in both push actions every multiCollectionReference field of the
\* mapping carries a non-empty string collectionId that the reference map
\* holds, so the filter of setCollectionFields drops no field: the list
\* written has the ids of mapping.fields, fieldsSet = mapping.fields.length,
\* and every key of every written item's fieldData is the id of a field
\* passed to setFields.
C28_ItemKeysAreWrittenFields ==
  /\ \A i \in DOMAIN fields :
       fields[i].type = "multiCollectionReference" =>
         /\ "collectionId" \in DOMAIN fields[i]
         /\ fields[i].collectionId # <<>>
         /\ \E tableId \in DOMAIN referenceMap : referenceMap[tableId] = fields[i].collectionId
  /\ \A written \in WrittenFieldLists :
       /\ Len(written) = Len(fields)
       /\ \A i \in DOMAIN written : written[i].id = fields[i].id
       /\ fieldsSet = Len(fields)
  /\ \A item \in WrittenItems :
       \A key \in DOMAIN item.fieldData :
         \A written \in WrittenFieldLists :
           \E i \in DOMAIN written : written[i].id = key
  /\ WrittenItems # {} => WrittenFieldLists # {}
  /\ (pc = "done" /\ caller # "none") => returned.value.fieldsSet = Len(fields)

\* a finished push that wrote a resolved multiCollectionReference field and an
\* item with an entry for it
C28_Witness ==
  /\ pc = "done"
  /\ caller # "none"
  /\ \E written \in WrittenFieldLists :
       \E i \in DOMAIN written :
         /\ written[i].type = "multiCollectionReference"
         /\ \E item \in WrittenItems : written[i].id \in DOMAIN item.fieldData
  /\ fieldsSet = Len(fields)
  /\ fieldsSet > 1

(***************************************************************************)
(* PublishProject                                                          *)
(***************************************************************************)
\* list?.length ?? 0
LengthOrZero(list) == IF list.k \in {"undef", "null"} THEN 0 ELSE Len(list.a)

\* the number of lists getChangedPaths returns, taken for the changes
ChangeCount_CountsLists(paths) == Cardinality({"added", "removed", "modified"})

\* changeCount of PublishProject
ChangeCount(paths) ==
  LengthOrZero(paths.added) + LengthOrZero(paths.removed) + LengthOrZero(paths.modified)

\* the error of a remote call that the Framer client rejects
RemoteError(op) == [threw |-> TRUE, userVisible |-> FALSE, error |-> op]

\* the message of a publish; the first character is the check mark U+2705
PublishedMessage(changeCount) ==
  <<"U+2705">> \o <<" ","P","u","b","l","i","s","h","e","d"," ","a","n","d"," ","d","e","p","l","o","y","e","d"," ">> \o NatToStr(changeCount) \o <<" ","c","h","a","n","g","e","(","s",")",".">>

\* connect, getChangedPaths, and the result when nothing has changed
GetChangedPaths ==
  /\ caller = "PublishProject"
  /\ pc = "changes"
  /\ calls' = calls \o <<Call("connect", <<>>), Call("getChangedPaths", <<>>)>>
  /\ IF ChangeCount(changedPaths) = 0
     THEN /\ returned' = Returns([published |-> FALSE,
                                  changeCount |-> ChangeCount(changedPaths),
                                  deploymentId |-> <<>>,
                                  hostnames |-> <<>>,
                                  message |-> <<"N","o"," ","p","e","n","d","i","n","g"," ","c","h","a","n","g","e","s","."," ","R","u","n"," ","P","u","s","h","R","o","w","T","o","C","o","l","l","e","c","t","i","o","n"," ","o","r"," ","P","u","s","h","T","a","b","l","e","T","o","C","o","l","l","e","c","t","i","o","n"," ","f","i","r","s","t",".">>])
          /\ pc' = "done"
     ELSE /\ returned' = returned
          /\ pc' = "publish"
  /\ UNCHANGED <<inputs, colIdx, scanIdx, rowIdx, fields, lookupValueSets, warnings,
                 skippedCount, items, caller, params, remote, collection, existingFields,
                 mergedFields, compatibleFields, fieldsSet, changedPaths, publishResult,
                 invocations, round, firstPush>>

\* what framer.publish() may resolve to
PublishResults ==
  {[deployment |-> [id |-> id], hostnames |-> names] :
     id \in {<<"d","1">>, <<"d","2">>},
     names \in {<<>>, <<[hostname |-> <<"a",".","i","o">>], [hostname |-> <<"b",".","i","o">>]>>}}

\* await framer.publish(): it resolves to a publish result or rejects
Publish ==
  /\ caller = "PublishProject"
  /\ pc = "publish"
  /\ calls' = Append(calls, Call("publish", <<>>))
  /\ \/ \E result \in PublishResults :
          /\ publishResult' = result
          /\ returned' = returned
          /\ pc' = "deploy"
     \/ /\ publishResult' = publishResult
        /\ returned' = RemoteError("publish")
        /\ pc' = "failed"
  /\ UNCHANGED <<inputs, colIdx, scanIdx, rowIdx, fields, lookupValueSets, warnings,
                 skippedCount, items, caller, params, remote, collection, existingFields,
                 mergedFields, compatibleFields, fieldsSet, changedPaths,
                 invocations, round, firstPush>>

\* await framer.deploy(publishResult.deployment.id) and the result returned
Deploy ==
  /\ caller = "PublishProject"
  /\ pc = "deploy"
  /\ calls' = Append(calls, Call("deploy", publishResult.deployment.id))
  /\ \/ /\ returned' = Returns([published |-> TRUE,
                                changeCount |-> ChangeCount(changedPaths),
                                deploymentId |-> publishResult.deployment.id,
                                hostnames |-> [i \in DOMAIN publishResult.hostnames |->
                                                 publishResult.hostnames[i].hostname],
                                message |-> PublishedMessage(ChangeCount(changedPaths))])
        /\ pc' = "done"
     \/ /\ returned' = RemoteError("deploy")
        /\ pc' = "failed"
  /\ UNCHANGED <<inputs, colIdx, scanIdx, rowIdx, fields, lookupValueSets, warnings,
                 skippedCount, items, caller, params, remote, collection, existingFields,
                 mergedFields, compatibleFields, fieldsSet, changedPaths, publishResult,
                 invocations, round, firstPush>>

\* the state of buildFieldsAndItems in an action that does not call it
NoMapping ==
  /\ columns = <<>>
  /\ rows = <<>>
  /\ slugFieldId = <<>>
  /\ referenceMap = buildReferenceMap(<<>>)
  /\ use12HourTime = FALSE
  /\ hostOffset = 0
  /\ colIdx = 0
  /\ scanIdx = 0
  /\ rowIdx = 0
  /\ fields = <<>>
  /\ lookupValueSets = [id \in {} |-> <<>>]
  /\ warnings = <<>>
  /\ skippedCount = 0
  /\ items = <<>>

\* the state of a push in an action that is none
NoPush ==
  /\ params = Null
  /\ collection = Null
  /\ existingFields = <<>>
  /\ mergedFields = <<>>
  /\ compatibleFields = <<>>
  /\ fieldsSet = 0
  /\ returned = Null
  /\ round = 1
  /\ firstPush = Null

\* the lists of changed paths a project may report; a list may be missing
PathLists == {Undef, Arr(<<>>), Arr(<<<<"/">>>>), Arr(<<<<"/">>, <<"/","b","l","o","g">>>>)}

\* PublishProject on a project with any pending changes
InitPublish ==
  \E added \in PathLists, removed \in PathLists, modified \in PathLists :
    /\ caller = "PublishProject"
    /\ pc = "changes"
    /\ changedPaths = [added |-> added, removed |-> removed, modified |-> modified]
    /\ publishResult = Null
    /\ remote = <<>>
    /\ calls = <<>>
    /\ invocations = <<>>
    /\ NoMapping
    /\ NoPush

PublishNext == GetChangedPaths \/ Publish \/ Deploy

PublishSpec == InitPublish /\ [][PublishNext]_vars

\* the positions of the calls of an operation on the Framer client
CallsOf(op) == {i \in DOMAIN calls : calls[i].op = op}

\* the number of paths in a list of changed paths, 0 for a missing list
PathsIn(list) == IF IsArray(list) THEN Len(list.a) ELSE 0

\* the total of the added, removed and modified paths
TotalChanged ==
  PathsIn(changedPaths.added) + PathsIn(changedPaths.removed) + PathsIn(changedPaths.modified)

\* C26: in every execution of PublishProject publish is called at most once
\* and deploy at most once; deploy is called only after publish has returned,
\* with the deployment id publish returned; when the total of the added,
\* removed and modified paths is 0 neither is called and the result has
\* published = false.
C26_PublishThenDeployOnce ==
  /\ Cardinality(CallsOf("publish")) <= 1
  /\ Cardinality(CallsOf("deploy")) <= 1
  /\ \A j \in CallsOf("deploy") :
       /\ \E i \in CallsOf("publish") : i < j
       /\ publishResult # Null
       /\ calls[j].arg = publishResult.deployment.id
  /\ TotalChanged = 0 =>
       /\ CallsOf("publish") = {}
       /\ CallsOf("deploy") = {}
       /\ pc = "done" => (~returned.threw /\ returned.value.published = FALSE)
  /\ (pc = "done" /\ TotalChanged > 0) =>
       /\ returned.value.published = TRUE
       /\ returned.value.deploymentId = publishResult.deployment.id

\* a publish of a project with a missing list of added paths and two modified
\* paths, deployed under the id d2
C26_Witness ==
  /\ pc = "done"
  /\ changedPaths.added = Undef
  /\ TotalChanged = 2
  /\ CallsOf("publish") # {} /\ CallsOf("deploy") # {}
  /\ calls[Len(calls)] = Call("deploy", <<"d","2">>)
  /\ returned.value.published = TRUE
  /\ returned.value.changeCount = 2

(***************************************************************************)
(* Push invocations that run at the same time: each is at one of the two   *)
(* awaits of getOrCreateManagedCollection                                  *)
(***************************************************************************)
\* the most invocations that run at the same time
MaxInvocations == 2

\* an invocation of a push action that has not called the project yet
Invocation(action, name) ==
  [action |-> action, collectionName |-> name, at |-> "list", collections |-> <<>>,
   collection |-> Null]

\* await framer.getManagedCollections() of one invocation: it resolves to the
\* collections the project holds at that moment
ListManagedCollections ==
  /\ caller = "concurrent"
  /\ \E p \in DOMAIN invocations :
       /\ invocations[p].at = "list"
       /\ invocations' = [invocations EXCEPT ![p].at = "find", ![p].collections = remote]
       /\ calls' = calls \o <<Call("connect", <<>>), Call("getManagedCollections", <<>>)>>
  /\ UNCHANGED <<inputs, pc, colIdx, scanIdx, rowIdx, fields, lookupValueSets, warnings,
                 skippedCount, items, caller, params, remote, collection, existingFields,
                 mergedFields, compatibleFields, fieldsSet, returned, changedPaths,
                 publishResult, round, firstPush>>

\* collections.find(...) of one invocation on the list it received, and
\* await framer.createManagedCollection(collectionName) when nothing is
\* found: the project creates the collection or rejects the call
FindOrCreate ==
  /\ caller = "concurrent"
  /\ \E p \in DOMAIN invocations :
       /\ invocations[p].at = "find"
       /\ LET name     == invocations[p].collectionName
              listed   == invocations[p].collections
              existing == FindByName(listed, name)
          IN  IF existing # 0
              THEN /\ invocations' =
                        [invocations EXCEPT
                           ![p].at = "returned",
                           ![p].collection = [collectionId   |-> listed[existing].id,
                                              collectionName |-> listed[existing].name,
                                              created        |-> FALSE]]
                   /\ UNCHANGED <<remote, calls>>
              ELSE /\ calls' = Append(calls, Call("createManagedCollection", name))
                   /\ \/ /\ remote' = Append(remote, [id |-> CreatedId(remote), name |-> name,
                                                      fields |-> <<>>, itemIds |-> {}])
                         /\ invocations' =
                              [invocations EXCEPT
                                 ![p].at = "returned",
                                 ![p].collection = [collectionId   |-> CreatedId(remote),
                                                    collectionName |-> name,
                                                    created        |-> TRUE]]
                      \/ /\ remote' = remote
                         /\ invocations' = [invocations EXCEPT ![p].at = "failed"]
  /\ UNCHANGED <<inputs, pc, colIdx, scanIdx, rowIdx, fields, lookupValueSets, warnings,
                 skippedCount, items, caller, params, collection, existingFields,
                 mergedFields, compatibleFields, fieldsSet, returned, changedPaths,
                 publishResult, round, firstPush>>

\* up to MaxInvocations push invocations started on a project with or without
\* the collection Posts
InitConcurrent ==
  \E n \in 1..MaxInvocations :
  \E started \in [1..n -> {"PushRowToCollection", "PushTableToCollection"}
                            \X {<<"P","o","s","t","s">>, <<"D","r","a","f","t","s">>}] :
  \E collections \in {<<>>, <<Posts>>} :
    /\ caller = "concurrent"
    /\ pc = "collection"
    /\ invocations = [p \in 1..n |-> Invocation(started[p][1], started[p][2])]
    /\ remote = collections
    /\ calls = <<>>
    /\ changedPaths = Undef
    /\ publishResult = Null
    /\ NoMapping
    /\ NoPush

ConcurrentNext == ListManagedCollections \/ FindOrCreate

ConcurrentSpec == InitConcurrent /\ [][ConcurrentNext]_vars

\* the managed collections of the project that have a name
NamedAs(name) == {i \in DOMAIN remote : remote[i].name = name}

\* C29: for any number of push invocations that run at the same time and name
\* the same collection, under every interleaving of their remote calls, the
\* project never holds more than one managed collection of that name: a
\* collection is created only when none with that name exists.
C29_AtMostOneCollectionPerName ==
  \A p \in DOMAIN invocations : Cardinality(NamedAs(invocations[p].collectionName)) <= 1

(***************************************************************************)
(* The same snapshot pushed twice in sequence                              *)
(***************************************************************************)
\* PushTableToCollection called again with the parameters of the push that
\* has just returned, on the project as that push left it
PushAgain ==
  /\ caller = "PushTableToCollection"
  /\ pc = "done"
  /\ round = 1
  /\ round' = 2
  /\ firstPush' = [returned |-> returned, remote |-> remote]
  /\ pc' = "parse"
  /\ calls' = <<>>
  /\ collection' = Null
  /\ existingFields' = <<>>
  /\ mergedFields' = <<>>
  /\ compatibleFields' = <<>>
  /\ fieldsSet' = 0
  /\ returned' = Null
  /\ columns' = <<>>
  /\ rows' = <<>>
  /\ slugFieldId' = <<>>
  /\ referenceMap' = buildReferenceMap(<<>>)
  /\ use12HourTime' = FALSE
  /\ colIdx' = 0
  /\ scanIdx' = 0
  /\ rowIdx' = 0
  /\ fields' = <<>>
  /\ lookupValueSets' = [id \in {} |-> <<>>]
  /\ warnings' = <<>>
  /\ skippedCount' = 0
  /\ items' = <<>>
  /\ UNCHANGED <<hostOffset, caller, params, remote, changedPaths, publishResult, invocations>>

TwiceNext == PushNext \/ PushAgain

TwiceSpec == PushInit /\ [][TwiceNext]_vars

\* the collection of a project that a push reports to have written
WrittenCollection(collections, report) ==
  collections[FindById(collections, report.collectionId)]

\* C30: the same snapshot pushed twice in sequence with PushTableToCollection
\* leaves the collection as the first push left it (the same field list, the
\* same item ids), the second push creates no collection and does not fail,
\* and both pushes report the same itemsAdded, itemsSkipped, fieldsSet and
\* warnings.
C30_SecondPushChangesNothing ==
  /\ round = 2 => pc \notin {"failed", "threw"}
  /\ round = 2 =>
       /\ ~Called("createManagedCollection")
       /\ Len(remote) = Len(firstPush.remote)
  /\ (round = 2 /\ pc = "done") =>
       LET first  == firstPush.returned.value
           second == returned.value
           before == WrittenCollection(firstPush.remote, first)
           after  == WrittenCollection(remote, second)
       IN  /\ second.collectionId = first.collectionId
           /\ after.fields = before.fields
           /\ after.itemIds = before.itemIds
           /\ remote = firstPush.remote
           /\ second.itemsAdded = first.itemsAdded
           /\ second.itemsSkipped = first.itemsSkipped
           /\ second.fieldsSet = first.fieldsSet
           /\ second.warnings = first.warnings

\* a second push of a snapshot whose first push created the collection,
\* renamed nothing, pruned and wrote items
C30_Witness ==
  /\ round = 2
  /\ pc = "done"
  /\ firstPush.returned.value.message # returned.value.message
  /\ returned.value.itemsAdded > 0
  /\ returned.value.itemsSkipped > 0
  /\ Called("getItemIds")
  /\ Called("addItems")

====
